---------------------------- MODULE Spec2Model ----------------------------
(***************************************************************************)
(* Ingestion pipeline (services/worker/worker/tasks.py), its Celery task   *)
(* lifecycle, the status endpoint (services/api/app/routers/documents.py)  *)
(* and permission-aware retrieval (services/api/app/services/retrieval.py) *)
(* of the rag-system repository.                                           *)
(***************************************************************************)
EXTENDS Integers, Sequences, FiniteSets, TLC

VARIABLES
    index,            \* the Weaviate class settings.weaviate_index: a set of stored objects
    pc,               \* per task: position of the worker inside ingest_document
    kwargs,           \* per task: the keyword arguments of the Celery message
    retries,          \* per task: self.request.retries of the current delivery
    backend,          \* per task: the record of the Celery result backend (state, info)
    raw_chunks,       \* per task: local raw_chunks of ingest_document
    processed,        \* per task: local processed
    batch_start,      \* per task: loop variable batch_start
    document_chunks,  \* per task: local document_chunks (the current batch)
    vectors,          \* per task: number of vectors the embedder returned for the batch
    runlog,           \* per task: what the current run did (calls made, chunks passed and
                      \* written), the tasks that had completed when it started and the
                      \* chunks the earlier attempts of the task wrote
    reported,         \* per task: the last stage and processed count a poller has seen
    faults,           \* number of faults the external services have shown so far
    env,              \* the deployment: size of the worker pool, faults the services may show
    retrieval,        \* the outcome of the last retrieve_documents call
    request,          \* per task: the entry point that submitted it and what its caller gave
    chunked,          \* the arguments and the result of the last chunk_text call
    response,         \* the last HTTP response of the API (upload, chat)
    inbox             \* the ingestion inbox: where its file is, and the positions of the
                      \* file watcher's handler and of the periodic scan

vars == <<index, pc, kwargs, retries, backend, raw_chunks, processed, batch_start,
          document_chunks, vectors, runlog, reported, faults, env, retrieval,
          request, chunked, response, inbox>>

ingestVars == <<index, pc, kwargs, retries, backend, raw_chunks, processed, batch_start,
                document_chunks, vectors, runlog, reported, faults, env, request>>

----------------------------------------------------------------------------
(* Settings (rag_shared/config.py).  The values are read from the           *)
(* environment; the model runs the deployment of the end-to-end scenario    *)
(* (chunk_size 3, overlap 1) with two chunks per embedding batch.           *)

ingestion_chunk_size == 3
ingestion_chunk_overlap == 1
ingestion_embed_batch_size == 2
default_public_principal == "public"
ingestion_default_source == "api"

\* max_retries of the autoretry decorator of ingest_document.
max_retries == 3

\* batch.batch_size set by upsert_chunks: objects per flush to Weaviate.
upsert_batch_size == 20

\* Optional values: Python's None is the empty tuple, a present value x is <<x>>.
None == <<>>
Some(x) == <<x>>

----------------------------------------------------------------------------
(* Bounds of the model.                                                     *)

\* Faults of the external services (embedder, index) over a behaviour in
\* which one worker process runs the tasks.
MaxFaults == 4

\* Faults of the external services over a behaviour in which two worker
\* processes run tasks at the same time.
MaxConcFaults == 1

\* Largest top_k of a retrieval request.
MaxTopK == 2

\* Largest chunk_size and overlap a caller of chunk_text passes.
MaxChunkSize == 4

\* The ingestion tasks (Celery messages) submitted for document doc-1.
Tasks == {1, 2}

----------------------------------------------------------------------------
(* Pure helpers.                                                            *)

Min(a, b) == IF a < b THEN a ELSE b
Max(a, b) == IF a > b THEN a ELSE b

\* seq[lo:hi] of Python (0-based, hi exclusive, clipped to the sequence).
Slice(seq, lo, hi) == SubSeq(seq, lo + 1, Min(hi, Len(seq)))

IsSpace(c) == c \in {" ", "\t", "\n"}

RECURSIVE SplitAcc(_, _, _, _)
SplitAcc(text, i, cur, words) ==
    IF i > Len(text)
    THEN IF cur = <<>> THEN words ELSE Append(words, cur)
    ELSE IF IsSpace(text[i])
         THEN SplitAcc(text, i + 1, <<>>, IF cur = <<>> THEN words ELSE Append(words, cur))
         ELSE SplitAcc(text, i + 1, Append(cur, text[i]), words)

\* A split on the single space, text.split(" "): a text without a word still
\* yields one (empty) word.
Split_OnSpace(text) ==
    IF SplitAcc(text, 1, <<>>, <<>>) = <<>> THEN <<<<>>>> ELSE SplitAcc(text, 1, <<>>, <<>>)

\* str.split(): the maximal runs of non-whitespace characters, in order.
Split(text) == SplitAcc(text, 1, <<>>, <<>>)

RECURSIVE Join(_)
\* " ".join(words)
Join(words) ==
    IF words = <<>> THEN <<>>
    ELSE IF Len(words) = 1 THEN words[1]
    ELSE words[1] \o <<" ">> \o Join(Tail(words))

\* _resolve_chunk_params: `chunk_size or default`, `overlap is None`, then the clamps.
_resolve_chunk_params(chunk_size, overlap) ==
    LET size0 == IF chunk_size = None \/ chunk_size = Some(0)
                 THEN ingestion_chunk_size ELSE chunk_size[1]
        ov0   == IF overlap = None THEN ingestion_chunk_overlap ELSE overlap[1]
        size  == IF size0 <= 0 THEN 1 ELSE size0
        ov1   == IF ov0 < 0 THEN 0 ELSE ov0
        ov    == IF ov1 >= size THEN Max(size - 1, 0) ELSE ov1
    IN  <<size, ov>>

RECURSIVE ChunkLoop(_, _, _, _, _)
\* The for loop of chunk_text: start runs over range(0, len(words), step).
ChunkLoop(words, start, size, step, chunks) ==
    IF start >= Len(words) THEN chunks
    ELSE LET end         == start + size
             chunk_words == Slice(words, start, end)
         IN  IF chunk_words = <<>> THEN chunks
             ELSE IF end >= Len(words)
                  THEN Append(chunks, Join(chunk_words))
                  ELSE ChunkLoop(words, start + step, size, step,
                                 Append(chunks, Join(chunk_words)))

\* A chunker that steps by the chunk size: consecutive chunks share no word.
chunk_text_StepIsSize(text, chunk_size, overlap) ==
    LET params == _resolve_chunk_params(chunk_size, overlap)
        words  == Split(text)
    IN  IF words = <<>> THEN <<>>
        ELSE ChunkLoop(words, 0, params[1], params[1], <<>>)

\* A chunker whose loop has no early exit: it cuts a window at every start
\* below len(words), also when the previous window reached the last word.
chunk_text_NoEarlyBreak(text, chunk_size, overlap) ==
    LET params == _resolve_chunk_params(chunk_size, overlap)
        words  == Split(text)
        step   == Max(params[1] - params[2], 1)
    IN  [i \in 1..((Len(words) + step - 1) \div step) |->
           Join(Slice(words, (i - 1) * step, (i - 1) * step + params[1]))]

\* chunk_text: split into words, then windows of chunk_size words every
\* chunk_size - overlap words.
chunk_text(text, chunk_size, overlap) ==
    LET params == _resolve_chunk_params(chunk_size, overlap)
        words  == Split(text)
        step   == Max(params[1] - params[2], 1)
    IN  IF words = <<>> THEN <<>>
        ELSE ChunkLoop(words, 0, params[1], step, <<>>)

----------------------------------------------------------------------------
(* Python dicts as insertion-ordered sequences of <<key, value>> pairs; a    *)
(* value is tagged with its JSON type: <<"str", s>> or <<"int", n>>.        *)

JStr(s) == <<"str", s>>
JInt(n) == <<"int", n>>

DictHas(d, k) == \E i \in 1..Len(d) : d[i][1] = k

\* d.get(k): None when the key is absent.
DictGet(d, k) ==
    IF DictHas(d, k) THEN Some(d[CHOOSE i \in 1..Len(d) : d[i][1] = k][2]) ELSE None

\* d[k] = v: replaces the value in place, or appends a new key.
DictSet(d, k, v) ==
    IF DictHas(d, k)
    THEN [i \in 1..Len(d) |-> IF d[i][1] = k THEN <<k, v>> ELSE d[i]]
    ELSE Append(d, <<k, v>>)

RECURSIVE DictMerge(_, _)
\* {**a, **b}
DictMerge(a, b) ==
    IF b = <<>> THEN a ELSE DictMerge(DictSet(a, b[1][1], b[1][2]), Tail(b))

\* json.dumps(d, ensure_ascii=False) of a flat dict: the token sequence
\* { key value key value ... }.
RECURSIVE JsonPairs(_)
JsonPairs(d) ==
    IF d = <<>> THEN <<>>
    ELSE <<<<"key", d[1][1]>>, d[1][2]>> \o JsonPairs(Tail(d))

JsonDumps(d) == <<<<"punct", "{">>>> \o JsonPairs(d) \o <<<<"punct", "}">>>>

\* json.loads of a string that should hold an object: the dict of a
\* well-formed object, None otherwise.
JsonLoads(s) ==
    IF /\ Len(s) >= 2 /\ (Len(s) % 2) = 0
       /\ s[1] = <<"punct", "{">> /\ s[Len(s)] = <<"punct", "}">>
       /\ \A i \in 2..(Len(s) - 1) :
             IF i % 2 = 0 THEN s[i][1] = "key" ELSE s[i][1] \in {"str", "int"}
    THEN Some([i \in 1..((Len(s) - 2) \div 2) |-> <<s[2 * i][2], s[2 * i + 1]>>])
    ELSE None

\* json.dumps of a list of strings: the token sequence [ item item ... ].
JsonList(items) ==
    <<<<"punct", "[">>>> \o [i \in 1..Len(items) |-> <<"str", items[i]>>]
                        \o <<<<"punct", "]">>>>

\* json.loads of any string: an object, a list of scalars, a scalar, or a
\* JSONDecodeError.
JsonLoadsAny(s) ==
    IF JsonLoads(s) # None
    THEN [kind |-> "dict", dict |-> JsonLoads(s)[1], items |-> <<>>]
    ELSE IF /\ Len(s) >= 2
            /\ s[1] = <<"punct", "[">> /\ s[Len(s)] = <<"punct", "]">>
            /\ \A i \in 2..(Len(s) - 1) : s[i][1] \in {"str", "num"}
         THEN [kind |-> "list", dict |-> <<>>, items |-> SubSeq(s, 2, Len(s) - 1)]
         ELSE IF Len(s) = 1 /\ s[1][1] \in {"str", "num"}
              THEN [kind |-> "scalar", dict |-> <<>>, items |-> s]
              ELSE [kind |-> "error", dict |-> <<>>, items |-> <<>>]

----------------------------------------------------------------------------
(* The documents submitted for ingestion.                                   *)

DocId == "doc-1"
OtherDocId == "doc-0"

\* "a b c d e f g h": the text of the end-to-end scenario.
TextScenario == <<"a", " ", "b", " ", "c", " ", "d", " ", "e", " ", "f", " ", "g", " ", "h">>
\* "p q  r s" (a double space between q and r).
TextShort == <<"p", " ", "q", " ", " ", "r", " ", "s">>
TextEmpty == <<>>
TextBlank == <<" ", "\n">>

\* An object another document left in the index before any task ran.
SeedObject ==
    [chunk_id |-> <<0, 0, 0>>, uuid |-> <<0, 0, 0>>, text |-> <<"z">>, source |-> "api",
     document_id |-> OtherDocId,
     metadata |-> JsonDumps(<<<<"document_id", JStr(OtherDocId)>>, <<"chunk_index", JInt(0)>>>>),
     allowed_principals |-> <<"public">>]

----------------------------------------------------------------------------
(* The Celery result backend and the lifecycle a poller sees.               *)

NoInfo == [kind |-> "none", dict |-> <<>>, msg |-> ""]
DictInfo(d) == [kind |-> "dict", dict |-> d, msg |-> ""]
ExcInfo(m) == [kind |-> "exc", dict |-> <<>>, msg |-> m]

\* str(exc) of the exception an external call raises: a requests error of
\* the embedder carries a message, an error of the index client may carry none.
ExcMessages(call) == IF call = "embed" THEN {"embedding service unavailable"} ELSE {""}

\* The lifecycle stage a backend record stands for: the stage key of its
\* info when it has one, else the Celery state.
StageOf(b) ==
    IF b.info.kind = "dict" /\ DictHas(b.info.dict, "stage")
    THEN DictGet(b.info.dict, "stage")[1][2]
    ELSE CASE b.state = "PENDING" -> "queued"
           [] b.state = "STARTED" -> "started"
           [] b.state = "FAILURE" -> "failed"
           [] b.state = "SUCCESS" -> "completed"
           [] OTHER -> "retry"

\* The processed count a backend record carries, if any.
ProcessedOf(b) ==
    IF b.info.kind = "dict" /\ DictHas(b.info.dict, "processed")
    THEN Some(DictGet(b.info.dict, "processed")[1][2])
    ELSE None

\* What a poller has seen once record b is stored for the delivery with
\* `attempt` retries: the stage, the last processed count carried by an
\* update (and the delivery that carried it).
Observe(old, b, attempt) ==
    [stage     |-> IF StageOf(b) = "retry" THEN old.stage ELSE StageOf(b),
     attempt   |-> IF StageOf(b) = "retry" THEN old.attempt ELSE attempt,
     processed |-> IF ProcessedOf(b) = None THEN old.processed ELSE ProcessedOf(b),
     processed_attempt |-> IF ProcessedOf(b) = None THEN old.processed_attempt ELSE attempt]

\* self.update_state(state=..., meta=...) and the worker's own state writes.
StoreState(t, state, info) ==
    LET b == [state |-> state, info |-> info]
    IN  /\ backend' = [backend EXCEPT ![t] = b]
        /\ reported' = [reported EXCEPT ![t] = Observe(@, b, retries'[t])]

EmptyRunlog ==
    [embed_calls |-> 0, upsert_calls |-> 0, delete_calls |-> 0, delete_ok |-> FALSE,
     short |-> FALSE, passed |-> <<>>, written |-> {}, after |-> {}, earlier |-> {}]

\* The inbox without a file: the watcher has no event to handle and no scan
\* is scheduled.
EmptyInbox ==
    [name |-> "", content |-> "none", text |-> <<>>, place |-> "absent",
     watcher |-> [pc |-> "idle"],
     sync |-> [pc |-> "idle", retries |-> 0, ingested |-> 0]]

\* No task has been submitted.
InitTasks ==
    /\ pc = [t \in Tasks |-> "idle"]
    /\ kwargs = [t \in Tasks |-> None]
    /\ retries = [t \in Tasks |-> 0]
    /\ backend = [t \in Tasks |-> [state |-> "PENDING", info |-> NoInfo]]
    /\ raw_chunks = [t \in Tasks |-> <<>>]
    /\ processed = [t \in Tasks |-> 0]
    /\ batch_start = [t \in Tasks |-> 0]
    /\ document_chunks = [t \in Tasks |-> <<>>]
    /\ vectors = [t \in Tasks |-> 0]
    /\ runlog = [t \in Tasks |-> EmptyRunlog]
    /\ reported = [t \in Tasks |->
                     [stage |-> "queued", attempt |-> 0, processed |-> None,
                      processed_attempt |-> 0]]
    /\ faults = 0
    /\ retrieval = None
    /\ request = [t \in Tasks |-> None]
    /\ chunked = None
    /\ response = None
    /\ inbox = EmptyInbox

\* The index holds what another document left.
InitIngestion ==
    /\ InitTasks
    /\ index = {SeedObject}

\* One worker process takes the tasks from the queue.
Init ==
    /\ InitIngestion
    /\ env = [workers |-> 1, max_faults |-> MaxFaults,
             permission_filters |-> TRUE]

\* Two worker processes (settings.worker_concurrency).
InitConc ==
    /\ InitIngestion
    /\ env = [workers |-> 2, max_faults |-> MaxConcFaults,
             permission_filters |-> TRUE]

----------------------------------------------------------------------------
(* Producers: the entry points that send an ingest_document message.       *)

\* The kwargs enqueue_ingest_document sends with the task.
enqueue_ingest_document(text, source, document_id, metadata, allowed_principals) ==
    [document_id |-> document_id,
     source |-> IF source = None \/ source = Some("") THEN ingestion_default_source
                ELSE source[1],
     text |-> text,
     metadata |-> IF metadata = None THEN <<>> ELSE metadata[1],
     allowed_principals |->
        IF allowed_principals = None \/ allowed_principals = Some(<<>>)
        THEN Some(<<default_public_principal>>) ELSE allowed_principals]

\* TEXT_EXTENSIONS, the content types TEXT_CONTENT_PREFIXES admit, and the
\* extensions of BINARY_HANDLERS.
TextExtensions == {".txt", ".md", ".markdown", ".json", ".yaml", ".yml", ".log"}
TextContentTypes == {"text/plain", "text/csv", "application/json", "application/xml"}
BinaryExtensions == {".pdf", ".docx", ".csv", ".tsv"}

_is_text_file(extension, content_type) ==
    \/ extension \in TextExtensions
    \/ content_type # None /\ content_type[1] \in TextContentTypes

\* extract_text_from_upload: the text, or the exception raised.  A file is
\* its extension, its content type, its body ("empty": no bytes, "broken":
\* bytes its handler cannot open or finds no text in, "ok") and the text a
\* handler gets from it.  _decode_text cannot fail: latin-1 decodes any bytes.
extract_text_from_upload(file) ==
    IF file.body = "empty"
    THEN [error |-> "DocumentProcessingError", text |-> <<>>]
    ELSE IF _is_text_file(file.extension, file.content_type)
         THEN [error |-> "none", text |-> file.text]
         ELSE IF file.extension \in BinaryExtensions
              THEN IF file.body = "broken"
                   THEN [error |-> "DocumentProcessingError", text |-> <<>>]
                   ELSE [error |-> "none", text |-> file.text]
              ELSE [error |-> "UnsupportedFileTypeError", text |-> <<>>]

\* An HTTP error response: nothing was enqueued.
Rejected(status_code, detail) ==
    [status_code |-> status_code, detail |-> detail, task |-> None]

\* upload_document: the response, and the kwargs of the task it enqueues.
\* The form fields metadata and allowed_principals are strings (token
\* sequences; None: the field is absent).  metadata_dict["filename"] = ...
\* raises TypeError, which nothing catches, when the metadata field holds
\* JSON that is no object.
upload_document(file, metadata, source, document_id, allowed_principals) ==
    LET extracted == extract_text_from_upload(file)
        meta_field == IF metadata = None THEN JsonDumps(<<>>) ELSE metadata[1]
        meta == IF meta_field = <<>> THEN [kind |-> "dict", dict |-> <<>>, items |-> <<>>]
                ELSE JsonLoadsAny(meta_field)
        with_name == IF file.filename # "" /\ ~DictHas(meta.dict, "filename")
                     THEN DictSet(meta.dict, "filename", JStr(file.filename))
                     ELSE meta.dict
        given == IF allowed_principals = None \/ allowed_principals = Some(<<>>)
                 THEN [kind |-> "list", dict |-> <<>>, items |-> <<>>]
                 ELSE JsonLoadsAny(allowed_principals[1])
    IN  IF extracted.error = "UnsupportedFileTypeError"
        THEN Rejected(415, "unsupported file type")
        ELSE IF extracted.error = "DocumentProcessingError"
        THEN Rejected(400, "document processing error")
        ELSE IF meta.kind = "error"
        THEN Rejected(400, "Invalid metadata JSON")
        ELSE IF meta.kind # "dict" /\ file.filename # ""
        THEN Rejected(500, "Internal Server Error")
        ELSE IF given.kind # "list" \/ \E i \in 1..Len(given.items) : given.items[i][1] # "str"
        THEN Rejected(400, "Invalid allowed_principals payload")
        ELSE [status_code |-> 202, detail |-> "",
              task |-> Some(enqueue_ingest_document(
                           extracted.text, source,
                           IF document_id = None THEN "uuid4" ELSE document_id[1],
                           Some(with_name),
                           Some([i \in 1..Len(given.items) |-> given.items[i][2]])))]

\* The kwargs each entry point sends for a submission (its entry point, the
\* text and the principals its caller gives).
SubmittedKwargs(sub) ==
    CASE sub.entry = "api" ->
            enqueue_ingest_document(sub.text, None, DocId, Some(<<>>), sub.allowed_principals)
      [] sub.entry = "upload" ->
            upload_document([filename |-> "doc-1.txt", extension |-> ".txt",
                             content_type |-> Some("text/plain"), body |-> "ok",
                             text |-> sub.text],
                            None, None, Some(DocId),
                            IF sub.allowed_principals = None THEN None
                            ELSE Some(JsonList(sub.allowed_principals[1]))).task[1]
      [] sub.entry = "sharepoint" ->
            [document_id |-> DocId, source |-> "sharepoint", text |-> sub.text,
             metadata |-> <<<<"source", JStr("sharepoint")>>,
                            <<"connector", JStr("sharepoint")>>>>,
             allowed_principals |-> sub.allowed_principals]
      [] OTHER ->
            [document_id |-> DocId, source |-> "file_watch", text |-> sub.text,
             metadata |-> <<<<"filename", JStr("doc-1.txt")>>>>,
             allowed_principals |-> None]

\* The submissions of document doc-1: task 1 is its first version, task 2
\* re-ingests it with another text.  The API and the upload endpoint give
\* enqueue_ingest_document a list (empty when the caller names no principal),
\* the file watcher and the inbox sync send no allowed_principals, the
\* SharePoint connector sends the principals it extracted.
Submissions(t) ==
    IF t = 1
    THEN {[entry |-> "api", text |-> TextScenario, allowed_principals |-> Some(<<>>)],
          [entry |-> "file_watch", text |-> TextEmpty, allowed_principals |-> None],
          [entry |-> "file_watch", text |-> TextScenario, allowed_principals |-> None]}
    ELSE {[entry |-> "upload", text |-> TextShort, allowed_principals |-> Some(<<"user:42">>)],
          [entry |-> "upload", text |-> TextBlank, allowed_principals |-> None],
          [entry |-> "inbox", text |-> TextShort, allowed_principals |-> None],
          [entry |-> "sharepoint", text |-> TextShort,
           allowed_principals |-> Some(<<"sharepoint:public">>)]}

\* An entry point submits the document: send_task / ingest_document.delay;
\* the task is PENDING.
Enqueue(t) ==
    /\ pc[t] = "idle"
    /\ \E sub \in Submissions(t) :
         /\ kwargs' = [kwargs EXCEPT ![t] = Some(SubmittedKwargs(sub))]
         /\ request' = [request EXCEPT ![t] = Some(sub)]
    /\ pc' = [pc EXCEPT ![t] = "queued"]
    /\ UNCHANGED <<index, retries, backend, raw_chunks, processed, batch_start,
                   document_chunks, vectors, runlog, reported, faults, env, retrieval,
                   chunked, response, inbox>>

----------------------------------------------------------------------------
(* ingest_document, one action per step that another process can observe.   *)

Terminal(t) == pc[t] \in {"done", "failed"}
Running(t) == pc[t] \notin {"idle", "queued", "done", "failed"}

Args(t) == kwargs[t][1]

\* A process of the worker pool is idle and takes the next message.
WorkerFree == Cardinality({u \in Tasks : Running(u)}) < env.workers

\* A worker that passes the list it was given on.
Principals_AsGiven(t) ==
    IF Args(t).allowed_principals = None THEN <<>> ELSE Args(t).allowed_principals[1]

\* principals = allowed_principals or [settings.default_public_principal]
Principals(t) ==
    IF Args(t).allowed_principals = None \/ Args(t).allowed_principals = Some(<<>>)
    THEN <<default_public_principal>> ELSE Args(t).allowed_principals[1]

\* base_metadata = {"document_id": document_id, **metadata}
BaseMetadata(t) == DictMerge(<<<<"document_id", JStr(Args(t).document_id)>>>>, Args(t).metadata)

\* An identifier drawn once per run and reused for each of its chunks.
NewChunkId_PerRun(t, attempt, position) == <<t, attempt + 1, 0>>

\* str(uuid.uuid4()): a fresh identifier, modelled by the place that draws it
\* (task, delivery, position of the chunk in the run).
NewChunkId(t, attempt, position) == <<t, attempt + 1, position>>

\* A worker takes the message: with task_track_started the state becomes
\* STARTED (meta: pid and hostname), then the body runs from its first line.
TaskStart(t) ==
    /\ pc[t] = "queued"
    /\ WorkerFree
    /\ pc' = [pc EXCEPT ![t] = "delete"]
    /\ runlog' = [runlog EXCEPT ![t] =
                    [EmptyRunlog EXCEPT !.after = {u \in Tasks : pc[u] = "done"},
                                        !.earlier = runlog[t].earlier \cup runlog[t].written]]
    /\ UNCHANGED retries
    /\ StoreState(t, "STARTED", DictInfo(<<<<"pid", JInt(1)>>, <<"hostname", JStr("worker")>>>>))
    /\ UNCHANGED <<index, kwargs, raw_chunks, processed, batch_start, document_chunks,
                   vectors, faults, env, retrieval, request, chunked, response, inbox>>

\* A delete whose predicate matches nothing.
DeleteMatching_Nothing(objects, document_id) == objects

\* A delete whose predicate is NotEqual: the objects of the document stay.
DeleteMatching_OtherDocuments(objects, document_id) ==
    {o \in objects : o.document_id = document_id}

\* delete_existing_document_chunks, the batch delete succeeds: every object
\* whose document_id equals the argument is removed.
DeleteMatching(objects, document_id) == {o \in objects : o.document_id # document_id}

\* A run that asks the index first and issues the delete only when the
\* document has objects there.
DeleteExisting_OnlyWhenIngested(t) ==
    /\ pc[t] = "delete"
    /\ index' = DeleteMatching(index, Args(t).document_id)
    /\ runlog' = IF \E o \in index : o.document_id = Args(t).document_id
                 THEN [runlog EXCEPT ![t].delete_calls = @ + 1, ![t].delete_ok = TRUE]
                 ELSE runlog
    /\ pc' = [pc EXCEPT ![t] = "update_started"]
    /\ UNCHANGED <<kwargs, retries, backend, raw_chunks, processed, batch_start,
                   document_chunks, vectors, reported, faults, env, retrieval, request, chunked, response, inbox>>

\* deleted = delete_existing_document_chunks(document_id), the call returns.
DeleteExisting(t) ==
    /\ pc[t] = "delete"
    /\ index' = DeleteMatching(index, Args(t).document_id)
    /\ runlog' = [runlog EXCEPT ![t].delete_calls = @ + 1, ![t].delete_ok = TRUE]
    /\ pc' = [pc EXCEPT ![t] = "update_started"]
    /\ UNCHANGED <<kwargs, retries, backend, raw_chunks, processed, batch_start,
                   document_chunks, vectors, reported, faults, env, retrieval, request, chunked, response, inbox>>

\* A delete helper without the try block: the error of the index leaves
\* the body and reaches the autoretry wrapper.
DeleteRaises_Propagates(t) ==
    /\ pc[t] = "delete"
    /\ faults < env.max_faults
    /\ faults' = faults + 1
    /\ runlog' = [runlog EXCEPT ![t].delete_calls = @ + 1, ![t].delete_ok = FALSE]
    /\ IF retries[t] >= max_retries
       THEN /\ UNCHANGED retries
            /\ pc' = [pc EXCEPT ![t] = "failed"]
            /\ StoreState(t, "FAILURE", ExcInfo(""))
       ELSE /\ retries' = [retries EXCEPT ![t] = @ + 1]
            /\ pc' = [pc EXCEPT ![t] = "queued"]
            /\ StoreState(t, "RETRY", ExcInfo(""))
    /\ UNCHANGED <<index, kwargs, raw_chunks, processed, batch_start, document_chunks,
                   vectors, env, retrieval, request, chunked, response, inbox>>

\* delete_existing_document_chunks, the batch delete raises: the exception is
\* logged and 0 is returned; the index keeps what it held.
DeleteRaises(t) ==
    /\ pc[t] = "delete"
    /\ faults < env.max_faults
    /\ faults' = faults + 1
    /\ runlog' = [runlog EXCEPT ![t].delete_calls = @ + 1, ![t].delete_ok = FALSE]
    /\ pc' = [pc EXCEPT ![t] = "update_started"]
    /\ UNCHANGED <<index, kwargs, retries, backend, raw_chunks, processed, batch_start,
                   document_chunks, vectors, reported, env, retrieval, request, chunked, response, inbox>>

\* self.update_state(state="STARTED", meta={"stage": "chunking", ...})
UpdateStarted(t) ==
    /\ pc[t] = "update_started"
    /\ pc' = [pc EXCEPT ![t] = "chunk"]
    /\ UNCHANGED retries
    /\ StoreState(t, "STARTED",
                  DictInfo(<<<<"stage", JStr("chunking")>>,
                             <<"document_id", JStr(Args(t).document_id)>>>>))
    /\ UNCHANGED <<index, kwargs, raw_chunks, processed, batch_start, document_chunks,
                   vectors, runlog, faults, env, retrieval, request, chunked, response, inbox>>

\* raw_chunks = chunk_text(text); the PROCESSING/chunking update; processed = 0.
ChunkDocument(t) ==
    /\ pc[t] = "chunk"
    /\ LET chunks == chunk_text(Args(t).text, None, None)
       IN  /\ raw_chunks' = [raw_chunks EXCEPT ![t] = chunks]
           /\ UNCHANGED retries
           /\ StoreState(t, "PROCESSING",
                         DictInfo(<<<<"stage", JStr("chunking")>>,
                                    <<"document_id", JStr(Args(t).document_id)>>,
                                    <<"chunks", JInt(Len(chunks))>>>>))
    /\ processed' = [processed EXCEPT ![t] = 0]
    /\ batch_start' = [batch_start EXCEPT ![t] = 0]
    /\ pc' = [pc EXCEPT ![t] = "loop"]
    /\ UNCHANGED <<index, kwargs, document_chunks, vectors, runlog, faults, env, retrieval, request, chunked, response, inbox>>

\* batch_size = max(1, settings.ingestion_embed_batch_size)
BatchSize == Max(1, ingestion_embed_batch_size)

\* A loop body that takes every chunk from batch_start on as one batch.
BuildDocumentChunks_WholeRest(t) ==
    LET batch == Slice(raw_chunks[t], batch_start[t], Len(raw_chunks[t]))
    IN  [i \in 1..Len(batch) |->
           [id |-> NewChunkId(t, retries[t], processed[t] + (i - 1)),
            text |-> batch[i],
            source |-> Args(t).source,
            document_id |-> Args(t).document_id,
            metadata |-> DictSet(BaseMetadata(t), "chunk_index", JInt(processed[t] + (i - 1))),
            allowed_principals |-> Principals(t)]]

\* A loop body that numbers the chunks within their batch.
BuildDocumentChunks_IndexInBatch(t) ==
    LET batch == Slice(raw_chunks[t], batch_start[t], batch_start[t] + BatchSize)
    IN  [i \in 1..Len(batch) |->
           [id |-> NewChunkId(t, retries[t], processed[t] + (i - 1)),
            text |-> batch[i],
            source |-> Args(t).source,
            document_id |-> Args(t).document_id,
            metadata |-> DictSet(BaseMetadata(t), "chunk_index", JInt(i - 1)),
            allowed_principals |-> Principals(t)]]

\* The DocumentChunk list built for raw_chunks[batch_start : batch_start + batch_size].
BuildDocumentChunks(t) ==
    LET batch == Slice(raw_chunks[t], batch_start[t], batch_start[t] + BatchSize)
    IN  [i \in 1..Len(batch) |->
           [id |-> NewChunkId(t, retries[t], processed[t] + (i - 1)),
            text |-> batch[i],
            source |-> Args(t).source,
            document_id |-> Args(t).document_id,
            metadata |-> DictSet(BaseMetadata(t), "chunk_index", JInt(processed[t] + (i - 1))),
            allowed_principals |-> Principals(t)]]

\* A progress payload that carries the chunks still to do as `processed`.
ProgressMeta_Remaining(t, stage, count) ==
    DictInfo(<<<<"stage", JStr(stage)>>,
               <<"document_id", JStr(Args(t).document_id)>>,
               <<"chunks", JInt(Len(raw_chunks[t]))>>,
               <<"processed", JInt(Len(raw_chunks[t]) - count)>>>>)

\* The payload of the progress updates of the batch loop.
ProgressMeta(t, stage, count) ==
    DictInfo(<<<<"stage", JStr(stage)>>,
               <<"document_id", JStr(Args(t).document_id)>>,
               <<"chunks", JInt(Len(raw_chunks[t]))>>,
               <<"processed", JInt(count)>>>>)

\* range(0, total_chunks, batch_size) has a value left for batch_start.
BatchLeft(t) == batch_start[t] < Len(raw_chunks[t])

\* Top of the batch loop with a batch left: build its chunks, report embedding.
BeginBatch(t) ==
    /\ pc[t] = "loop"
    /\ BatchLeft(t)
    /\ document_chunks' = [document_chunks EXCEPT ![t] = BuildDocumentChunks(t)]
    /\ UNCHANGED retries
    /\ StoreState(t, "PROCESSING", ProgressMeta(t, "embedding", processed[t]))
    /\ pc' = [pc EXCEPT ![t] = "embed"]
    /\ UNCHANGED <<index, kwargs, raw_chunks, processed, batch_start, vectors, runlog,
                   faults, env, retrieval, request, chunked, response, inbox>>

\* The call of ingest_document ends (it returns or raises): its locals are gone.
DropLocals(t) ==
    /\ raw_chunks' = [raw_chunks EXCEPT ![t] = <<>>]
    /\ processed' = [processed EXCEPT ![t] = 0]
    /\ batch_start' = [batch_start EXCEPT ![t] = 0]
    /\ document_chunks' = [document_chunks EXCEPT ![t] = <<>>]
    /\ vectors' = [vectors EXCEPT ![t] = 0]

\* A wrapper that re-sends the message without counting the retry.
HandleException_Uncounted(t, msg) ==
    /\ UNCHANGED retries
    /\ pc' = [pc EXCEPT ![t] = "queued"]
    /\ StoreState(t, "RETRY", ExcInfo(msg))

\* A wrapper that counts the retry and lets the body go on at its loop.
HandleException_Resumes(t, msg) ==
    IF retries[t] >= max_retries
    THEN /\ UNCHANGED retries
         /\ pc' = [pc EXCEPT ![t] = "failed"]
         /\ StoreState(t, "FAILURE", ExcInfo(msg))
    ELSE /\ retries' = [retries EXCEPT ![t] = @ + 1]
         /\ pc' = [pc EXCEPT ![t] = "loop"]
         /\ StoreState(t, "RETRY", ExcInfo(msg))

\* What the autoretry wrapper does with an exception raised by the body:
\* self.retry(exc=exc) re-sends the message with retries + 1 and the state
\* becomes RETRY, unless the budget is spent: then exc is raised and the
\* state becomes FAILURE with the exception as result.
HandleException(t, msg) ==
    IF retries[t] >= max_retries
    THEN /\ UNCHANGED retries
         /\ pc' = [pc EXCEPT ![t] = "failed"]
         /\ StoreState(t, "FAILURE", ExcInfo(msg))
    ELSE /\ retries' = [retries EXCEPT ![t] = @ + 1]
         /\ pc' = [pc EXCEPT ![t] = "queued"]
         /\ StoreState(t, "RETRY", ExcInfo(msg))

\* embed_chunks returns data["embeddings"]: n vectors for the batch's texts.
\* The service may answer with fewer vectors than texts (a fault).
EmbedBatch(t) ==
    /\ pc[t] = "embed"
    /\ \E n \in 0..Len(document_chunks[t]) :
         /\ n < Len(document_chunks[t]) => faults < env.max_faults
         /\ faults' = IF n < Len(document_chunks[t]) THEN faults + 1 ELSE faults
         /\ vectors' = [vectors EXCEPT ![t] = n]
         /\ runlog' = [runlog EXCEPT ![t].embed_calls = @ + 1,
                                     ![t].short = @ \/ n < Len(document_chunks[t])]
    /\ pc' = [pc EXCEPT ![t] = "update_indexing"]
    /\ UNCHANGED <<index, kwargs, retries, backend, raw_chunks, processed, batch_start,
                   document_chunks, reported, env, retrieval, request, chunked, response, inbox>>

\* embed_chunks raises (connection error, timeout, HTTP error status,
\* no "embeddings" key in the answer).
EmbedRaises(t) ==
    /\ pc[t] = "embed"
    /\ faults < env.max_faults
    /\ faults' = faults + 1
    /\ runlog' = [runlog EXCEPT ![t].embed_calls = @ + 1]
    /\ \E msg \in ExcMessages("embed") : HandleException(t, msg)
    /\ DropLocals(t)
    /\ UNCHANGED <<index, kwargs, env, retrieval, request, chunked, response, inbox>>

\* An indexing update that reports the chunking stage.
UpdateIndexing_AsChunking(t) ==
    /\ pc[t] = "update_indexing"
    /\ UNCHANGED retries
    /\ StoreState(t, "PROCESSING",
                  ProgressMeta(t, "chunking", processed[t] + Len(document_chunks[t])))
    /\ pc' = [pc EXCEPT ![t] = "upsert"]
    /\ UNCHANGED <<index, kwargs, raw_chunks, processed, batch_start, document_chunks,
                   vectors, runlog, faults, env, retrieval, request, chunked, response, inbox>>

\* The PROCESSING/indexing update, sent before the batch is written.
UpdateIndexing(t) ==
    /\ pc[t] = "update_indexing"
    /\ UNCHANGED retries
    /\ StoreState(t, "PROCESSING",
                  ProgressMeta(t, "indexing", processed[t] + Len(document_chunks[t])))
    /\ pc' = [pc EXCEPT ![t] = "upsert"]
    /\ UNCHANGED <<index, kwargs, raw_chunks, processed, batch_start, document_chunks,
                   vectors, runlog, faults, env, retrieval, request, chunked, response, inbox>>

\* The object upsert_chunks stores for a chunk (the vector itself is not modelled).
StoredObject(chunk) ==
    [chunk_id |-> chunk.id, uuid |-> chunk.id, text |-> chunk.text, source |-> chunk.source,
     document_id |-> chunk.document_id, metadata |-> JsonDumps(chunk.metadata),
     allowed_principals |-> chunk.allowed_principals]

\* batch.add_data_object(..., uuid=...) of each object: an object with the
\* same uuid is replaced.
PutObjects(objects, new) == {o \in objects : \A n \in new : n.uuid # o.uuid} \cup new

\* zip(chunks, vectors): the first min(len(chunks), len(vectors)) chunks.
Zipped(chunks, nvectors) == SubSeq(chunks, 1, Min(Len(chunks), nvectors))

\* The objects of the first k pairs.
ObjectsOf(chunks, k) == {StoredObject(chunks[i]) : i \in 1..k}

\* upsert_chunks returns, then processed += len(document_chunks) and the
\* loop goes to the next batch.
UpsertBatch(t) ==
    /\ pc[t] = "upsert"
    /\ LET pairs == Zipped(document_chunks[t], vectors[t])
           new   == ObjectsOf(pairs, Len(pairs))
       IN  /\ index' = PutObjects(index, new)
           /\ runlog' = [runlog EXCEPT ![t].upsert_calls = @ + 1,
                                       ![t].passed = @ \o document_chunks[t],
                                       ![t].written = @ \cup {o.uuid : o \in new}]
    /\ processed' = [processed EXCEPT ![t] = @ + Len(document_chunks[t])]
    /\ batch_start' = [batch_start EXCEPT ![t] = @ + BatchSize]
    /\ document_chunks' = [document_chunks EXCEPT ![t] = <<>>]
    /\ vectors' = [vectors EXCEPT ![t] = 0]
    /\ pc' = [pc EXCEPT ![t] = "loop"]
    /\ UNCHANGED <<kwargs, retries, backend, raw_chunks, reported, faults, env, retrieval, request, chunked, response, inbox>>

\* The numbers of objects already flushed when a flush of the Weaviate batch
\* raises: the batch is flushed every upsert_batch_size objects and at exit.
FlushedBefore(npairs) == {k \in 0..(npairs - 1) : k % upsert_batch_size = 0}

\* upsert_chunks raises from a flush; the objects flushed before stay written.
UpsertRaises(t) ==
    /\ pc[t] = "upsert"
    /\ faults < env.max_faults
    /\ faults' = faults + 1
    /\ LET pairs == Zipped(document_chunks[t], vectors[t])
       IN  \E k \in FlushedBefore(Len(pairs)) :
             LET new == ObjectsOf(pairs, k)
             IN  /\ index' = PutObjects(index, new)
                 /\ runlog' = [runlog EXCEPT ![t].upsert_calls = @ + 1,
                                             ![t].passed = @ \o document_chunks[t],
                                             ![t].written = @ \cup {o.uuid : o \in new}]
    /\ \E msg \in ExcMessages("upsert") : HandleException(t, msg)
    /\ DropLocals(t)
    /\ UNCHANGED <<kwargs, env, retrieval, request, chunked, response, inbox>>

\* The loop is over: raw_chunks.clear() and the PROCESSING/finalizing update.
Finalize(t) ==
    /\ pc[t] = "loop"
    /\ ~BatchLeft(t)
    /\ UNCHANGED retries
    /\ StoreState(t, "PROCESSING", ProgressMeta(t, "finalizing", processed[t]))
    /\ raw_chunks' = [raw_chunks EXCEPT ![t] = <<>>]
    /\ pc' = [pc EXCEPT ![t] = "return"]
    /\ UNCHANGED <<index, kwargs, processed, batch_start, document_chunks, vectors,
                   runlog, faults, env, retrieval, request, chunked, response, inbox>>

\* return {"document_id": document_id, "stage": "completed"}: state SUCCESS.
Return(t) ==
    /\ pc[t] = "return"
    /\ UNCHANGED retries
    /\ StoreState(t, "SUCCESS",
                  DictInfo(<<<<"document_id", JStr(Args(t).document_id)>>,
                             <<"stage", JStr("completed")>>>>))
    /\ pc' = [pc EXCEPT ![t] = "done"]
    /\ DropLocals(t)
    /\ UNCHANGED <<index, kwargs, runlog, faults, env, retrieval, request, chunked, response, inbox>>

----------------------------------------------------------------------------
(* The status endpoint GET /v1/documents/status/{task_id}.                  *)

\* info.get(key): the value stored under the key, None when it is absent.
InfoField(info, key) ==
    IF DictGet(info.dict, key) = None THEN None ELSE Some(DictGet(info.dict, key)[1][2])

\* An endpoint that reads the stage under the key "state".
get_document_status_StageKey(t) ==
    LET state == backend[t].state
        info  == backend[t].info
        detail0 == CASE info.kind = "dict" -> InfoField(info, "detail")
                     [] info.kind = "exc"  -> Some(info.msg)
                     [] OTHER -> None
    IN  [task_id |-> t,
         state |-> state,
         stage |-> IF info.kind = "dict" THEN InfoField(info, "state") ELSE None,
         document_id |-> IF info.kind = "dict" THEN InfoField(info, "document_id") ELSE None,
         detail |-> IF state = "FAILURE" /\ detail0 = None
                    THEN Some("Ingestion task failed.") ELSE detail0]

\* An endpoint that takes the detail from a dict result only.
get_document_status_DictDetail(t) ==
    LET state == backend[t].state
        info  == backend[t].info
    IN  [task_id |-> t,
         state |-> state,
         stage |-> IF info.kind = "dict" THEN InfoField(info, "stage") ELSE None,
         document_id |-> IF info.kind = "dict" THEN InfoField(info, "document_id") ELSE None,
         detail |-> IF info.kind = "dict" THEN InfoField(info, "detail") ELSE None]

\* get_document_status: the StatusResponse built from the AsyncResult.
get_document_status(t) ==
    LET state == backend[t].state
        info  == backend[t].info
        detail0 == CASE info.kind = "dict" -> InfoField(info, "detail")
                     [] info.kind = "exc"  -> Some(info.msg)
                     [] OTHER -> None
    IN  [task_id |-> t,
         state |-> state,
         stage |-> IF info.kind = "dict" THEN InfoField(info, "stage") ELSE None,
         document_id |-> IF info.kind = "dict" THEN InfoField(info, "document_id") ELSE None,
         detail |-> IF state = "FAILURE" /\ detail0 = None
                    THEN Some("Ingestion task failed.") ELSE detail0]

----------------------------------------------------------------------------

Next ==
    \E t \in Tasks :
        \/ Enqueue(t)
        \/ TaskStart(t)
        \/ DeleteExisting(t)
        \/ DeleteRaises(t)
        \/ UpdateStarted(t)
        \/ ChunkDocument(t)
        \/ BeginBatch(t)
        \/ EmbedBatch(t)
        \/ EmbedRaises(t)
        \/ UpdateIndexing(t)
        \/ UpsertBatch(t)
        \/ UpsertRaises(t)
        \/ Finalize(t)
        \/ Return(t)

Spec == Init /\ [][Next]_vars

SpecConc == InitConc /\ [][Next]_vars

----------------------------------------------------------------------------
(* retrieve_documents (services/api/app/services/retrieval.py).             *)

\* Filters of the index's where clause.
EqualFilter(path, value) ==
    [operator |-> "Equal", path |-> path, valueText |-> value, valueTextArray |-> <<>>,
     operands |-> <<>>]

ContainsAnyFilter(path, values) ==
    [operator |-> "ContainsAny", path |-> path, valueText |-> "", valueTextArray |-> values,
     operands |-> <<>>]

AndFilter(operands) ==
    [operator |-> "And", path |-> "", valueText |-> "", valueTextArray |-> <<>>,
     operands |-> operands]

Range(seq) == {seq[i] : i \in 1..Len(seq)}

\* A where clause that leaves the principals out.
BuildWhereFilter_NoPrincipals(filters, principals) == filters

\* A where clause in which the principal predicate replaces the filters.
BuildWhereFilter_PrincipalsOnly(filters, principals) ==
    IF principals # None /\ principals # Some(<<>>)
    THEN Some(ContainsAnyFilter("allowed_principals", principals[1]))
    ELSE filters

\* where_filter as _query composes it from `filters` and `principals`.
BuildWhereFilter(filters, principals) ==
    LET where0 == IF filters = None THEN None ELSE filters
    IN  IF principals # None /\ principals # Some(<<>>)
        THEN LET principal_filter == ContainsAnyFilter("allowed_principals", principals[1])
             IN  IF where0 # None
                 THEN Some(AndFilter(<<where0[1], principal_filter>>))
                 ELSE Some(principal_filter)
        ELSE where0

\* The index's evaluation of a leaf predicate on a stored object.
MatchesLeaf(obj, f) ==
    CASE f.operator = "Equal" /\ f.path = "document_id" -> obj.document_id = f.valueText
      [] f.operator = "Equal" /\ f.path = "source" -> obj.source = f.valueText
      [] f.operator = "ContainsAny" /\ f.path = "allowed_principals" ->
            Range(obj.allowed_principals) \cap Range(f.valueTextArray) # {}
      [] OTHER -> FALSE

\* The index's evaluation of a where clause (And over leaves or over Ands of leaves).
Matches(obj, f) ==
    IF f.operator = "And"
    THEN \A i \in 1..Len(f.operands) :
            IF f.operands[i].operator = "And"
            THEN \A j \in 1..Len(f.operands[i].operands) :
                    MatchesLeaf(obj, f.operands[i].operands[j])
            ELSE MatchesLeaf(obj, f.operands[i])
    ELSE MatchesLeaf(obj, f)

\* The objects a query may select: those the where clause admits, all when
\* there is none.
Admitted(objects, where) ==
    IF where = None THEN objects ELSE {o \in objects : Matches(o, where[1])}

\* The relevance signals the index may attach to a hit (_additional), in
\* hundredths: certainty and distance, either of which may be missing.
Signals ==
    {[certainty |-> Some(90), distance |-> Some(20)],
     [certainty |-> None, distance |-> Some(30)],
     [certainty |-> Some(0), distance |-> Some(200)],
     [certainty |-> None, distance |-> None]}

\* The hit lists a search with .with_limit(top_k) may return: the top_k
\* admitted objects in the order of relevance, which the vectors decide,
\* each with its _additional.
SearchResults(objects, where, top_k) ==
    LET admitted == Admitted(objects, where)
        n == Min(top_k, Cardinality(admitted))
        hit == {[item |-> o, additional |-> [id |-> o.uuid, certainty |-> g.certainty,
                                             distance |-> g.distance]] :
                   o \in admitted, g \in Signals}
    IN  {h \in [1..n -> hit] : \A i, j \in 1..n : i # j => h[i].item # h[j].item}

\* _resolve_score: `certainty or score`, else 1 - distance, else None
\* (values in hundredths; the index is never asked for "score").
_resolve_score(additional) ==
    LET score == IF additional.certainty = None \/ additional.certainty = Some(0)
                 THEN None ELSE additional.certainty
    IN  IF score # None THEN score
        ELSE IF additional.distance = None THEN None
        ELSE Some(100 - additional.distance[1])

\* The metadata _query hands to DocumentChunk for a stored string: what
\* json.loads returns (a dict, a list, a scalar), or {"raw": <the string>}
\* when json.loads raises JSONDecodeError.
DecodedMetadata(metadata_raw) ==
    LET loaded == JsonLoadsAny(metadata_raw)
    IN  CASE loaded.kind = "dict" -> loaded.dict
          [] loaded.kind = "error" -> <<<<"raw", <<"json", metadata_raw>>>>>>
          [] OTHER -> loaded.items

\* DocumentChunk(metadata=...) validates the field `metadata: dict`: a value
\* that is not a mapping raises ValidationError.
ValidatesAsChunk(hit) == JsonLoadsAny(hit.item.metadata).kind \in {"dict", "error"}

\* Every hit of the search gives a DocumentChunk.
AllValidate(hits) == \A i \in 1..Len(hits) : ValidatesAsChunk(hits[i])

\* The hits the loop of _query reaches: all of them, or those up to the
\* first one whose DocumentChunk raises.
HitsReached(hits) ==
    IF AllValidate(hits) THEN hits
    ELSE SubSeq(hits, 1, CHOOSE i \in 1..Len(hits) :
                            /\ ~ValidatesAsChunk(hits[i])
                            /\ \A j \in 1..(i - 1) : ValidatesAsChunk(hits[j]))

\* The DocumentChunk _query builds from a hit.
ChunkOfHit(hit) ==
    [id |-> hit.item.chunk_id,
     text |-> hit.item.text,
     source |-> hit.item.source,
     document_id |-> hit.item.document_id,
     metadata |-> DecodedMetadata(hit.item.metadata),
     allowed_principals |-> hit.item.allowed_principals,
     score |-> _resolve_score(hit.additional)]

\* The errors _query catches while it builds the chunks of the hits, and
\* those of them it writes a log record for: the except branch of the
\* metadata decode assigns {"raw": ...} and calls no logger.
DecodeCaught(hits) ==
    IF \E i \in 1..Len(HitsReached(hits)) :
          JsonLoadsAny(hits[i].item.metadata).kind = "error"
    THEN {"metadata"} ELSE {}

DecodeLogged(hits) == {}

\* The principal lists and filters of the callers; top_k of ChatQuery is 1..20.
QueryPrincipals == {None, Some(<<>>), Some(<<"public">>), Some(<<"user:42">>),
                    Some(<<"user:7", "public">>)}

QueryFilters == {None, Some(EqualFilter("document_id", DocId))}

\* The answers the embedding service may give to the query: a vector, a
\* connection error, a timeout, an error status, a body without the
\* "embeddings" key, or an empty "embeddings" list.
EmbedOutcomes == {"vector", "error", "timeout", "http_error", "no_key", "empty"}

\* A try block that lets the errors of the embedding call through.
QueryEmbedding_Propagates(e) ==
    [vector |-> IF e = "vector" THEN Some("v") ELSE None,
     raised |-> e \in {"error", "timeout", "http_error"},
     caught |-> {},
     logged |-> {}]

\* The try/except around the query embedding: `vector` stays None when the
\* call raises (the exception is caught and logged as a warning) or when the
\* answer holds no embedding.
QueryEmbedding(e) ==
    [vector |-> IF e = "vector" THEN Some("v") ELSE None,
     raised |-> FALSE,
     caught |-> IF e \in {"error", "timeout", "http_error"} THEN {"embed"} ELSE {},
     logged |-> IF e \in {"error", "timeout", "http_error"} THEN {"embed"} ELSE {}]

\* The body of retrieve_documents for one request: embed the query, compose
\* the where clause, search (near_vector with a vector, near_text on the raw
\* query without) and build the chunks of the hits; a hit whose DocumentChunk
\* does not validate raises out of the call.
RetrieveDocuments(via, principals, filters, top_k) ==
    \E e \in EmbedOutcomes :
        LET emb == QueryEmbedding(e)
            where_filter == BuildWhereFilter(filters, principals)
        IN  IF emb.raised
            THEN retrieval' = Some([via |-> via, principals |-> principals,
                                    filters |-> filters, top_k |-> top_k, embed |-> e,
                                    raised |-> TRUE, error |-> "embed",
                                    search |-> "none",
                                    where_filter |-> None, limit |-> 0,
                                    hits |-> <<>>, chunks |-> <<>>,
                                    caught |-> emb.caught, logged |-> emb.logged])
            ELSE \E hits \in SearchResults(index, where_filter, top_k) :
                   retrieval' = Some([via |-> via, principals |-> principals,
                                      filters |-> filters, top_k |-> top_k, embed |-> e,
                                      raised |-> ~AllValidate(hits),
                                      error |-> IF ~AllValidate(hits)
                                                THEN "validation" ELSE "none",
                                      search |-> IF emb.vector # None THEN "near_vector"
                                                 ELSE "near_text",
                                      where_filter |-> where_filter, limit |-> top_k,
                                      hits |-> hits,
                                      chunks |-> IF ~AllValidate(hits) THEN <<>>
                                                 ELSE [i \in 1..Len(hits) |->
                                                         ChunkOfHit(hits[i])],
                                      caught |-> emb.caught \cup DecodeCaught(hits),
                                      logged |-> emb.logged \cup DecodeLogged(hits)])

\* retrieve_documents(client, index_name, query, top_k, filters=, principals=).
\* Requests share no state: the model follows one request against the index.
Retrieve ==
    /\ retrieval = None
    /\ \E principals \in QueryPrincipals, filters \in QueryFilters, top_k \in 1..MaxTopK :
         RetrieveDocuments("direct", principals, filters, top_k)
    /\ UNCHANGED <<ingestVars, chunked, response, inbox>>

\* Objects as upsert_chunks stores them: a public chunk and a chunk of user:42
\* of document doc-1, and the public chunk of document doc-0.
StoredObjects ==
    {SeedObject,
     StoredObject([id |-> <<1, 1, 0>>, text |-> <<"a">>, source |-> "api",
                   document_id |-> DocId,
                   metadata |-> <<<<"document_id", JStr(DocId)>>, <<"chunk_index", JInt(0)>>>>,
                   allowed_principals |-> <<default_public_principal>>]),
     StoredObject([id |-> <<2, 1, 0>>, text |-> <<"p">>, source |-> "api",
                   document_id |-> DocId,
                   metadata |-> <<<<"document_id", JStr(DocId)>>, <<"chunk_index", JInt(0)>>>>,
                   allowed_principals |-> <<"user:42">>])}

\* The object of document doc-0 as a writer other than upsert_chunks may
\* have left it in the class: its metadata property is not a JSON document.
ForeignObject == [SeedObject EXCEPT !.metadata = <<<<"junk", "not json">>>>]

\* The same object with a metadata property that is a JSON document but
\* not an object: the list ["x"].
NonMappingObject == [SeedObject EXCEPT !.metadata = JsonList(<<"x">>)]

\* The contents of the index a request may meet: objects of upsert_chunks,
\* the object of doc-0 in one of its forms (one object per uuid).
IndexContents ==
    {objects \in SUBSET (StoredObjects \cup {ForeignObject, NonMappingObject}) :
        Cardinality(objects \cap {SeedObject, ForeignObject, NonMappingObject}) <= 1}

\* The principals a chat request names (ChatQuery.principals, a list that
\* is empty by default) and its query text.
ChatPrincipals == {<<>>, <<"user:42">>, <<"user:7", "public">>}
ChatQueries == {"ok", "blank", "too_long"}

\* A chat handler that passes the caller's list on as it is.
chat_principals_AsGiven(given) == given

\* The principals the chat handler searches with: the caller's, or the
\* default public principal when permission filters are enabled and the
\* caller named none.
chat_principals(given) ==
    LET principals == IF given # <<>> THEN given ELSE <<>>
    IN  IF env.permission_filters /\ principals = <<>>
        THEN <<default_public_principal>> ELSE principals

\* POST /v1/chat: the checks of the settings and the query, then retrieval
\* with the principals of the request; the answer generation and the
\* persistence that follow either succeed (200) or raise (500).
Chat ==
    /\ retrieval = None
    /\ response = None
    /\ \E given \in ChatPrincipals, query \in ChatQueries, top_k \in 1..MaxTopK,
          validation_issues \in BOOLEAN :
         IF validation_issues
         THEN /\ response' = Some([endpoint |-> "chat", principals |-> given,
                                   status_code |-> 500])
              /\ UNCHANGED retrieval
         ELSE IF query # "ok"
         THEN /\ response' = Some([endpoint |-> "chat", principals |-> given,
                                   status_code |-> 400])
              /\ UNCHANGED retrieval
         ELSE /\ RetrieveDocuments("chat", Some(chat_principals(given)), None, top_k)
              /\ \E status_code \in {200, 500} :
                   response' = Some([endpoint |-> "chat", principals |-> given,
                                     status_code |-> IF retrieval'[1].raised THEN 500
                                                     ELSE status_code])
    /\ UNCHANGED <<ingestVars, chunked, inbox>>

\* The index holds any of the stored objects; no ingestion task runs;
\* permission filters are enabled or not (settings.enable_permission_filters).
InitRetrieval ==
    /\ InitTasks
    /\ index \in IndexContents
    /\ env \in {[workers |-> 1, max_faults |-> 0, permission_filters |-> b] : b \in BOOLEAN}

NextRetrieval == Retrieve \/ Chat

SpecRetrieval == InitRetrieval /\ [][NextRetrieval]_vars

----------------------------------------------------------------------------
(* chunk_text called with explicit parameters.                              *)

\* "w": a text of one word.
TextWord == <<"w">>

ChunkTexts == {TextScenario, TextShort, TextEmpty, TextBlank, TextWord}

\* chunk_size and overlap as a caller passes them: None, or an int that may
\* be out of range.
ChunkParams == {None} \cup {Some(n) : n \in -1..MaxChunkSize}

\* A call chunk_text(text, chunk_size, overlap): the parameters it resolves
\* and the chunks it returns.
ChunkText ==
    /\ chunked = None
    /\ \E text \in ChunkTexts, chunk_size \in ChunkParams, overlap \in ChunkParams :
         chunked' = Some([text |-> text, chunk_size |-> chunk_size, overlap |-> overlap,
                          params |-> _resolve_chunk_params(chunk_size, overlap),
                          chunks |-> chunk_text(text, chunk_size, overlap)])
    /\ UNCHANGED <<ingestVars, retrieval, response, inbox>>

\* No task runs and the index is empty.
InitChunk ==
    /\ InitTasks
    /\ index = {}
    /\ env = [workers |-> 1, max_faults |-> 0, permission_filters |-> TRUE]

NextChunk == ChunkText

SpecChunk == InitChunk /\ [][NextChunk]_vars

----------------------------------------------------------------------------
(* POST /v1/documents/upload.                                               *)

\* The files a client uploads: text and binary files the handlers read, an
\* empty file, a PDF that cannot be opened, and files of no supported type.
UploadFiles ==
    {[filename |-> "doc-1.txt", extension |-> ".txt", content_type |-> Some("text/plain"),
      body |-> "ok", text |-> TextShort],
     [filename |-> "doc-1.txt", extension |-> ".txt", content_type |-> Some("text/plain"),
      body |-> "empty", text |-> <<>>],
     [filename |-> "notes", extension |-> "", content_type |-> Some("text/plain"),
      body |-> "ok", text |-> TextShort],
     [filename |-> "doc-1.pdf", extension |-> ".pdf", content_type |-> Some("application/pdf"),
      body |-> "ok", text |-> TextShort],
     [filename |-> "doc-1.pdf", extension |-> ".pdf", content_type |-> Some("application/pdf"),
      body |-> "broken", text |-> <<>>],
     [filename |-> "doc-1.exe", extension |-> ".exe",
      content_type |-> Some("application/octet-stream"), body |-> "ok", text |-> TextShort],
     [filename |-> "doc-1", extension |-> "", content_type |-> None,
      body |-> "ok", text |-> TextShort]}

\* The metadata form field: absent (the default "{}"), empty, an object, a
\* string that is no JSON, a JSON list.
MetadataFields ==
    {None, Some(<<>>), Some(JsonDumps(<<<<"author", JStr("ann")>>>>)),
     Some(<<<<"junk", "{oops">>>>), Some(JsonList(<<"x">>))}

\* The allowed_principals form field: absent, empty, a list of strings, an
\* empty list, a JSON string, a list of numbers, a string that is no JSON.
PrincipalFields ==
    {None, Some(<<>>), Some(JsonList(<<"user:42">>)), Some(JsonList(<<>>)),
     Some(<<<<"str", "user:42">>>>),
     Some(<<<<"punct", "[">>, <<"num", "1">>, <<"punct", "]">>>>),
     Some(<<<<"junk", "user:42,">>>>)}

\* A client uploads a file for task t: the response, and the task when the
\* upload is accepted.
Upload(t) ==
    /\ pc[t] = "idle"
    /\ response = None
    /\ \E file \in UploadFiles, metadata \in MetadataFields, principals \in PrincipalFields :
         LET r == upload_document(file, metadata, None, Some(DocId), principals)
         IN  /\ response' = Some([endpoint |-> "upload", file |-> file, metadata |-> metadata,
                                  allowed_principals |-> principals,
                                  status_code |-> r.status_code, detail |-> r.detail,
                                  task_id |-> IF r.task = None THEN None ELSE Some(t)])
             /\ IF r.task = None
                THEN UNCHANGED <<kwargs, pc, request>>
                ELSE /\ kwargs' = [kwargs EXCEPT ![t] = r.task]
                     /\ pc' = [pc EXCEPT ![t] = "queued"]
                     /\ request' = [request EXCEPT ![t] =
                           Some([entry |-> "upload", text |-> file.text,
                                 allowed_principals |->
                                    IF principals = None \/ principals = Some(<<>>) THEN None
                                    ELSE Some(r.task[1].allowed_principals[1])])]
    /\ UNCHANGED <<index, retries, backend, raw_chunks, processed, batch_start,
                   document_chunks, vectors, runlog, reported, faults, env, retrieval,
                   chunked, inbox>>

\* No task has been submitted and the index is empty.
InitUpload ==
    /\ InitTasks
    /\ index = {}
    /\ env = [workers |-> 1, max_faults |-> 0, permission_filters |-> TRUE]

NextUpload == \E t \in Tasks : Upload(t)

SpecUpload == InitUpload /\ [][NextUpload]_vars

----------------------------------------------------------------------------
(* The ingestion inbox: the file watcher (worker/watchers.py) and the       *)
(* periodic scan sync_ingestion_inbox (worker/tasks.py), which run in two   *)
(* processes and share the inbox directory.                                 *)

\* The files a user may drop: doc-1.txt with a UTF-8 text, doc-1.txt with
\* bytes that are not UTF-8, and a file that is not a .txt file.
InboxFiles ==
    {[name |-> "doc-1.txt", content |-> "text", text |-> TextScenario],
     [name |-> "doc-1.txt", content |-> "text", text |-> TextShort],
     [name |-> "doc-1.txt", content |-> "binary", text |-> <<>>],
     [name |-> "doc-1.md", content |-> "text", text |-> TextShort]}

IsTxt(name) == name = "doc-1.txt"

\* A file appears in the inbox; the observer of a running watcher calls
\* on_created for it, a file dropped while no watcher runs gets no event.
PlaceFile ==
    /\ inbox.place = "absent"
    /\ \E file \in InboxFiles, watching \in BOOLEAN :
         inbox' = [inbox EXCEPT !.name = file.name, !.content = file.content,
                                !.text = file.text, !.place = "inbox",
                                !.watcher.pc = IF watching THEN "event" ELSE "idle"]
    /\ UNCHANGED <<ingestVars, retrieval, chunked, response>>

\* Celery beat sends sync_ingestion_inbox (beat_schedule), a new message
\* every interval; the model follows one scan at a time.
BeatFires ==
    /\ inbox.sync.pc \in {"idle", "done"}
    /\ inbox' = [inbox EXCEPT !.sync.pc = "scheduled", !.sync.retries = 0]
    /\ UNCHANGED <<ingestVars, retrieval, chunked, response>>

\* ingest_document.delay(document_id=path.stem, source="file_watch", ...):
\* the message takes the next free task of the model.
DelayIngest ==
    \E t \in Tasks :
        /\ pc[t] = "idle"
        /\ \A u \in Tasks : u < t => pc[u] # "idle"
        /\ LET sub == [entry |-> "file_watch", text |-> inbox.text,
                       allowed_principals |-> None]
           IN  /\ kwargs' = [kwargs EXCEPT ![t] = Some(SubmittedKwargs(sub))]
               /\ request' = [request EXCEPT ![t] = Some(sub)]
        /\ pc' = [pc EXCEPT ![t] = "queued"]

\* on_created up to path.read_text: a file that is not .txt is ignored, a
\* file that is not UTF-8 is skipped, a file that is gone raises
\* FileNotFoundError out of the handler.
WatcherRead ==
    /\ inbox.watcher.pc = "event"
    /\ inbox' = [inbox EXCEPT !.watcher.pc =
                    IF ~IsTxt(inbox.name) THEN "ignored"
                    ELSE IF inbox.place # "inbox" THEN "raised"
                    ELSE IF inbox.content = "binary" THEN "skipped"
                    ELSE "delay"]
    /\ UNCHANGED <<ingestVars, retrieval, chunked, response>>

\* on_created: task = ingest_document.delay(...)
WatcherDelay ==
    /\ inbox.watcher.pc = "delay"
    /\ DelayIngest
    /\ inbox' = [inbox EXCEPT !.watcher.pc = "rename"]
    /\ UNCHANGED <<index, retries, backend, raw_chunks, processed, batch_start,
                   document_chunks, vectors, runlog, reported, faults, env, retrieval,
                   chunked, response>>

\* on_created: path.rename(destination); FileNotFoundError when the file is
\* no longer in the inbox.
WatcherRename ==
    /\ inbox.watcher.pc = "rename"
    /\ inbox' = IF inbox.place = "inbox"
                THEN [inbox EXCEPT !.place = "processed", !.watcher.pc = "done"]
                ELSE [inbox EXCEPT !.watcher.pc = "raised"]
    /\ UNCHANGED <<ingestVars, retrieval, chunked, response>>

\* What the autoretry wrapper of sync_ingestion_inbox does with an exception.
SyncRaised(sync) ==
    IF sync.retries >= max_retries
    THEN [sync EXCEPT !.pc = "failed"]
    ELSE [sync EXCEPT !.pc = "scheduled", !.retries = @ + 1, !.ingested = 0]

\* sync_ingestion_inbox: sorted(INBOX_PATH.glob("*.txt")); without a match
\* the scan returns 0.
SyncGlob ==
    /\ inbox.sync.pc = "scheduled"
    /\ inbox' = [inbox EXCEPT !.sync.pc =
                    IF inbox.place = "inbox" /\ IsTxt(inbox.name) THEN "read" ELSE "done",
                              !.sync.ingested = 0]
    /\ UNCHANGED <<ingestVars, retrieval, chunked, response>>

\* sync_ingestion_inbox: path.read_text; UnicodeDecodeError skips the file,
\* FileNotFoundError leaves the task.
SyncRead ==
    /\ inbox.sync.pc = "read"
    /\ inbox' = IF inbox.place # "inbox" THEN [inbox EXCEPT !.sync = SyncRaised(@)]
                ELSE IF inbox.content = "binary" THEN [inbox EXCEPT !.sync.pc = "done"]
                ELSE [inbox EXCEPT !.sync.pc = "delay"]
    /\ UNCHANGED <<ingestVars, retrieval, chunked, response>>

\* sync_ingestion_inbox: ingest_document.delay(...)
SyncDelay ==
    /\ inbox.sync.pc = "delay"
    /\ DelayIngest
    /\ inbox' = [inbox EXCEPT !.sync.pc = "move"]
    /\ UNCHANGED <<index, retries, backend, raw_chunks, processed, batch_start,
                   document_chunks, vectors, runlog, reported, faults, env, retrieval,
                   chunked, response>>

\* sync_ingestion_inbox: shutil.move(path, destination) and ingested += 1;
\* the move raises when the file is no longer in the inbox.
SyncMove ==
    /\ inbox.sync.pc = "move"
    /\ inbox' = IF inbox.place = "inbox"
                THEN [inbox EXCEPT !.place = "processed", !.sync.pc = "done",
                                   !.sync.ingested = @ + 1]
                ELSE [inbox EXCEPT !.sync = SyncRaised(@)]
    /\ UNCHANGED <<ingestVars, retrieval, chunked, response>>

\* No file, no task; the index holds what another document left.
InitInbox ==
    /\ InitIngestion
    /\ env = [workers |-> 1, max_faults |-> 0, permission_filters |-> TRUE]

NextInbox ==
    \/ PlaceFile
    \/ BeatFires
    \/ WatcherRead
    \/ WatcherDelay
    \/ WatcherRename
    \/ SyncGlob
    \/ SyncRead
    \/ SyncDelay
    \/ SyncMove

SpecInbox == InitInbox /\ [][NextInbox]_vars

----------------------------------------------------------------------------
(* Claims.                                                                  *)

\* The identifiers of the objects the index holds for a document.
IndexedIds(document_id) == {o.uuid : o \in {x \in index : x.document_id = document_id}}

\* Task t has completed a run that started after every other task had completed.
ReingestedAfterOthers(t) ==
    /\ pc[t] = "done"
    /\ runlog[t].after = Tasks \ {t}

C2_ReturnedChunksAreAllowed ==
    (/\ retrieval # None /\ ~retrieval[1].raised
     /\ retrieval[1].principals # None /\ retrieval[1].principals # Some(<<>>)) =>
        LET r == retrieval[1]
            visible == {o \in Admitted(index, r.filters) :
                          Range(o.allowed_principals) \cap Range(r.principals[1]) # {}}
        IN  /\ \A i \in 1..Len(r.chunks) :
                 Range(r.chunks[i].allowed_principals) \cap Range(r.principals[1]) # {}
            /\ Len(r.chunks) = Min(r.top_k, Cardinality(visible))

\* C2 witness: the index holds a public chunk and a chunk of user:42, and a
\* request of user:42 got the latter alone.
C2_Witness ==
    /\ retrieval # None
    /\ \E o \in index : o.allowed_principals = <<"public">>
    /\ retrieval[1].principals = Some(<<"user:42">>)
    /\ retrieval[1].top_k = 2
    /\ Len(retrieval[1].chunks) = 1
    /\ retrieval[1].chunks[1].allowed_principals = <<"user:42">>

\* C3: once two runs for the same document_id that ran at the same time have
\* both completed (no call having failed), the index holds for the document
\* the chunk set of exactly one of them.
C3_ConcurrentRunsConverge ==
    (faults = 0 /\ \A t \in Tasks : pc[t] = "done") =>
        \E t \in Tasks : IndexedIds(DocId) = runlog[t].written

\* The place of a stage in the lifecycle queued, started, chunking, embedding,
\* indexing, finalizing, completed (failed is terminal like completed).
StageRank(stage) ==
    CASE stage = "queued" -> 0
      [] stage = "started" -> 1
      [] stage = "chunking" -> 2
      [] stage = "embedding" -> 3
      [] stage = "indexing" -> 4
      [] stage = "finalizing" -> 5
      [] OTHER -> 6

TerminalStage(stage) == stage \in {"completed", "failed"}

\* C4 (as stated): the stage a task reports never moves to an earlier stage
\* of the lifecycle, and nothing is reported after completed or failed.
C4_StageNeverRegresses ==
    [][\A t \in Tasks :
          /\ StageRank(reported'[t].stage) >= StageRank(reported[t].stage)
          /\ TerminalStage(reported[t].stage) => reported'[t] = reported[t]]_vars

\* C4 (amended): within one delivery the stage moves forward except that it
\* returns from indexing to embedding when the next batch begins; a retried
\* delivery starts again at started; nothing is reported after completed or
\* failed.
C4_StageForwardWithinBatchAndRun ==
    [][\A t \in Tasks :
          /\ TerminalStage(reported[t].stage) => reported'[t] = reported[t]
          /\ reported'[t].attempt = reported[t].attempt =>
                \/ StageRank(reported'[t].stage) >= StageRank(reported[t].stage)
                \/ reported[t].stage = "indexing" /\ reported'[t].stage = "embedding"
          /\ reported'[t].attempt # reported[t].attempt =>
                /\ reported'[t].attempt = reported[t].attempt + 1
                /\ reported'[t].stage = "started"]_vars

\* C4 witness: a retried delivery reports embedding for its second batch.
C4_Witness ==
    \E t \in Tasks :
        /\ reported[t].attempt >= 1
        /\ reported[t].stage = "embedding"
        /\ reported[t].processed = Some(2)

\* C5 (as stated): the processed count of a task's successive progress
\* updates never decreases.
C5_ProcessedNeverDecreases ==
    [][\A t \in Tasks :
          (reported[t].processed # None /\ reported'[t].processed # None) =>
              reported'[t].processed[1] >= reported[t].processed[1]]_vars

\* C5 (amended): the processed count never decreases within one delivery; the
\* first count a retried delivery reports is 0 again.
C5_ProcessedMonotonicWithinRun ==
    [][\A t \in Tasks :
          (reported[t].processed # None /\ reported'[t].processed # None) =>
              IF reported'[t].processed_attempt = reported[t].processed_attempt
              THEN reported'[t].processed[1] >= reported[t].processed[1]
              ELSE reported'[t].processed[1] = 0]_vars

\* C5 witness: a retried delivery has reported 2 processed chunks of 4.
C5_Witness ==
    \E t \in Tasks :
        /\ reported[t].processed_attempt >= 1
        /\ reported[t].processed = Some(2)
        /\ reported[t].stage = "indexing"

\* C6: a task whose last permitted attempt raised is in the failed state, and
\* the status endpoint reports FAILURE with a detail that is not null.
C6_ExhaustedRetriesReportFailure ==
    \A t \in Tasks :
        /\ pc[t] = "failed" <=> backend[t].state = "FAILURE"
        /\ pc[t] = "failed" =>
              /\ retries[t] = max_retries
              /\ get_document_status(t).state = "FAILURE"
              /\ get_document_status(t).detail # None
        /\ (backend[t].state = "RETRY") => (pc[t] = "queued" /\ retries[t] <= max_retries)

\* C6 witness: a task has failed with an exception whose message is empty.
C6_Witness ==
    \E t \in Tasks :
        /\ pc[t] = "failed"
        /\ backend[t].info.kind = "exc"
        /\ get_document_status(t).detail = Some("")

\* The steps a run has behind it: its place in the body and the batches done.
RunProgress(t) ==
    LET batches == batch_start[t] \div BatchSize
    IN  CASE pc[t] = "delete" -> 0
          [] pc[t] = "update_started" -> 1
          [] pc[t] = "chunk" -> 2
          [] pc[t] = "loop" -> 3 + 4 * batches
          [] pc[t] = "embed" -> 4 + 4 * batches
          [] pc[t] = "update_indexing" -> 5 + 4 * batches
          [] pc[t] = "upsert" -> 6 + 4 * batches
          [] OTHER -> 4 + 4 * batches

\* More steps than a run of the longest text can take.
RunSteps ==
    LET lens == {Len(sub.text) : sub \in UNION {Submissions(t) : t \in Tasks}}
    IN  10 + 4 * (CHOOSE n \in lens : \A m \in lens : n >= m)

\* The steps a task can still take: those left of its run and those of the
\* attempts it has left.
StepsLeft(t) ==
    CASE pc[t] = "idle" -> (max_retries + 2) * RunSteps
      [] pc[t] = "queued" -> (max_retries + 1 - retries[t]) * RunSteps
      [] Terminal(t) -> 0
      [] OTHER -> (max_retries - retries[t]) * RunSteps + (RunSteps - 1 - RunProgress(t))

\* Task t can take a step: a client can submit it, a free worker can take
\* its message, or the worker running it is at a statement of the body.
CanStep(t) ==
    \/ pc[t] = "idle"
    \/ pc[t] = "queued" /\ WorkerFree
    \/ pc[t] = "loop" /\ (BatchLeft(t) \/ ~BatchLeft(t))
    \/ pc[t] \in {"delete", "update_started", "chunk", "embed", "update_indexing",
                  "upsert", "return"}

\* C7: a task runs at most max_retries + 1 attempts and always ends in
\* completed or failed: no delivery has more than max_retries retries, every
\* step lowers the number of steps the tasks can still take (which is never
\* negative), and while a task has not ended some task can take a step.
C7_BoundedAttemptsAndTermination ==
    /\ [](\A t \in Tasks : retries[t] <= max_retries /\ StepsLeft(t) >= 0)
    /\ []((\E t \in Tasks : ~Terminal(t)) => \E t \in Tasks : CanStep(t))
    /\ [][StepsLeft(1) + StepsLeft(2) > StepsLeft(1)' + StepsLeft(2)']_vars

\* C7 witness: a task has completed on its last permitted attempt.
C7_Witness ==
    \E t \in Tasks : pc[t] = "done" /\ retries[t] = max_retries

\* A text without a word: empty or whitespace only.
Wordless(text) == \A i \in 1..Len(text) : IsSpace(text[i])

\* C8 (as stated): a task with a wordless text neither fails nor retries,
\* calls neither the embedder nor the index (delete or upsert) and completes
\* with processed = 0.
C8_EmptyTextCallsNothing ==
    \A t \in Tasks :
        (kwargs[t] # None /\ Wordless(Args(t).text)) =>
            /\ runlog[t].embed_calls = 0
            /\ runlog[t].upsert_calls = 0
            /\ runlog[t].delete_calls = 0

\* C8 (amended): a task with a wordless text produces zero chunks, neither
\* fails nor retries, calls neither the embedder nor upsert_chunks, and
\* completes with processed = 0; the predicate delete of the run is still
\* issued once.
C8_EmptyTextEmbedsAndWritesNothing ==
    \A t \in Tasks :
        (kwargs[t] # None /\ Wordless(Args(t).text)) =>
            /\ runlog[t].embed_calls = 0
            /\ runlog[t].upsert_calls = 0
            /\ runlog[t].written = {}
            /\ pc[t] # "failed" /\ retries[t] = 0
            /\ pc[t] \in {"loop", "return"} => raw_chunks[t] = <<>>
            /\ pc[t] \in {"return", "done"} =>
                  /\ reported[t].processed = Some(0)
                  /\ runlog[t].delete_calls = 1
            /\ pc[t] = "done" => get_document_status(t).stage = Some("completed")

\* C8 witness: a task with a whitespace-only text has completed.
C8_Witness ==
    \E t \in Tasks :
        /\ pc[t] = "done"
        /\ Args(t).text = TextBlank
        /\ reported[t].processed = Some(0)

\* C9: when the embedder answers with fewer vectors than texts the run raises
\* instead of writing: no completed run has written fewer chunks than the
\* processed count it reports.
C9_ShortEmbeddingNeverCompletes ==
    \A t \in Tasks :
        pc[t] = "done" =>
            /\ ~runlog[t].short
            /\ Cardinality(runlog[t].written) = reported[t].processed[1]

\* The texts and the identifiers of a sequence of DocumentChunks.
TextsOf(chunks) == [i \in 1..Len(chunks) |-> chunks[i].text]
IdsOf(chunks) == {chunks[i].id : i \in 1..Len(chunks)}

\* C10: a completed run in which no external call failed has passed every
\* chunk of chunk_text to upsert_chunks once and in order, each chunk id is
\* distinct from every other, all of them were written, and processed equals
\* the number of chunks (4 for the 8-word text with chunk_size 3, overlap 1).
C10_EveryChunkUpsertedOnce ==
    \A t \in Tasks :
        (pc[t] = "done" /\ ~runlog[t].short) =>
            LET chunks == chunk_text(Args(t).text, None, None)
                passed == runlog[t].passed
            IN  /\ TextsOf(passed) = chunks
                /\ \A i, j \in 1..Len(passed) : i # j => passed[i].id # passed[j].id
                /\ \A u \in Tasks \ {t} : IdsOf(passed) \cap IdsOf(runlog[u].passed) = {}
                /\ runlog[t].written = IdsOf(passed)
                /\ reported[t].processed = Some(Len(chunks))
                /\ Args(t).text = TextScenario =>
                      (Len(passed) = 4 /\ reported[t].processed = Some(4))

\* C10 witness: the run of the 8-word text completed after 4 chunks in 2 batches.
C10_Witness ==
    \E t \in Tasks :
        /\ pc[t] = "done"
        /\ ~runlog[t].short
        /\ Args(t).text = TextScenario
        /\ Len(runlog[t].passed) = 4
        /\ runlog[t].upsert_calls = 2

\* C11: when the query embedding call raises, times out or returns no
\* embedding, retrieve_documents does not raise for it: it searches
\* near_text with the where clause and limit of the request and builds its
\* chunks from that search's hits.
C11_EmbeddingFailureFallsBackToText ==
    (retrieval # None /\ retrieval[1].embed # "vector") =>
        LET r == retrieval[1]
        IN  /\ r.error # "embed"
            /\ r.search = "near_text"
            /\ r.where_filter = BuildWhereFilter(r.filters, r.principals)
            /\ r.limit = r.top_k
            /\ r.hits \in SearchResults(index, r.where_filter, r.top_k)
            /\ ~r.raised => r.chunks = [i \in 1..Len(r.hits) |-> ChunkOfHit(r.hits[i])]

\* C11 witness: the embedding call timed out and the text search of a
\* filtered request returned a chunk.
C11_Witness ==
    /\ retrieval # None
    /\ retrieval[1].embed = "timeout"
    /\ retrieval[1].search = "near_text"
    /\ retrieval[1].where_filter # None
    /\ Len(retrieval[1].chunks) >= 1

\* C12: the score of a returned chunk is the hit's certainty whenever the hit
\* carries one (0 included, whatever its distance), else 1 - distance when
\* the hit carries a distance, else absent.
C12_ScoreIsCertaintyElseDistance ==
    retrieval # None =>
        \A i \in 1..Len(retrieval[1].chunks) :
            LET a == retrieval[1].hits[i].additional
            IN  retrieval[1].chunks[i].score =
                    IF a.certainty # None THEN a.certainty
                    ELSE IF a.distance # None THEN Some(100 - a.distance[1])
                    ELSE None

\* The chunks a run has built so far: those passed to upsert_chunks and
\* those of the batch in hand.
ChunksBuilt(t) == runlog[t].passed \o document_chunks[t]

\* The caller of task t named no principal: the field is absent or empty.
NoPrincipalsGiven(t) ==
    request[t] # None /\ request[t][1].allowed_principals \in {None, Some(<<>>)}

\* C13: every chunk passed to upsert_chunks has at least one allowed
\* principal, and when the caller gave none (absent or an empty list), by
\* whatever entry point, it carries exactly the default public principal.
C13_ChunksCarryAPrincipal ==
    \A t \in Tasks :
        \A i \in 1..Len(ChunksBuilt(t)) :
            /\ Len(ChunksBuilt(t)[i].allowed_principals) >= 1
            /\ NoPrincipalsGiven(t) =>
                  ChunksBuilt(t)[i].allowed_principals = <<default_public_principal>>
            /\ ~NoPrincipalsGiven(t) =>
                  ChunksBuilt(t)[i].allowed_principals = request[t][1].allowed_principals[1]

\* C13 witness: chunks of a file the inbox sync submitted, which names no
\* principal, and chunks of an API request with an empty list were written.
C13_Witness ==
    /\ request[1] # None /\ request[1][1].entry = "api"
    /\ request[2] # None /\ request[2][1].entry = "inbox"
    /\ Len(runlog[1].passed) = 4
    /\ Len(runlog[2].passed) = 2
    /\ \A t \in Tasks : NoPrincipalsGiven(t)

\* C14: chunk_text treats every chunk_size <= 0 as 1, every negative overlap
\* as 0 and every overlap >= chunk_size as chunk_size - 1 (None standing for
\* the configured value), so it chunks with chunk_size >= 1 and
\* 0 <= overlap < chunk_size.
C14_OutOfRangeParamsAreClamped ==
    chunked # None =>
        LET c == chunked[1]
            size_in == IF c.chunk_size = None THEN ingestion_chunk_size ELSE c.chunk_size[1]
            size == IF size_in <= 0 THEN 1 ELSE size_in
            ov_in == IF c.overlap = None THEN ingestion_chunk_overlap ELSE c.overlap[1]
            ov == IF ov_in < 0 THEN 0 ELSE IF ov_in >= size THEN size - 1 ELSE ov_in
        IN  /\ c.params = <<size, ov>>
            /\ c.params[1] >= 1
            /\ 0 <= c.params[2] /\ c.params[2] < c.params[1]

RECURSIVE Tails(_, _)
\* The words of each chunk after its first `overlap` words, in order.
Tails(chunks, overlap) ==
    IF chunks = <<>> THEN <<>>
    ELSE SubSeq(Split(chunks[1]), overlap + 1, Len(Split(chunks[1]))) \o Tails(Tail(chunks), overlap)

\* The first chunk whole, then the tail of each later chunk.
Reassemble(chunks, overlap) ==
    IF chunks = <<>> THEN <<>> ELSE Split(chunks[1]) \o Tails(Tail(chunks), overlap)

\* chunk_text was called with chunk_size >= 1 and 0 <= overlap < chunk_size.
InRangeCall ==
    /\ chunked # None
    /\ chunked[1].chunk_size # None /\ chunked[1].overlap # None
    /\ chunked[1].chunk_size[1] >= 1
    /\ 0 <= chunked[1].overlap[1] /\ chunked[1].overlap[1] < chunked[1].chunk_size[1]

\* C15: for chunk_size >= 1 and 0 <= overlap < chunk_size, the first chunk
\* followed by the words of each later chunk after its first `overlap` words
\* is exactly the whitespace-split word sequence of the text.
C15_ReassemblyGivesTheWords ==
    InRangeCall => Reassemble(chunked[1].chunks, chunked[1].overlap[1]) = Split(chunked[1].text)

\* C15 witness: the 8-word text cut with chunk_size 3 and overlap 1 into 4 chunks.
C15_Witness ==
    /\ InRangeCall
    /\ chunked[1].text = TextScenario
    /\ chunked[1].chunk_size = Some(3) /\ chunked[1].overlap = Some(1)
    /\ Len(chunked[1].chunks) = 4

\* The value a mapping stores under a key, None when the key is missing.
StoredField(d, key) ==
    IF \E i \in 1..Len(d) : d[i][1] = key
    THEN Some((d[CHOOSE i \in 1..Len(d) : d[i][1] = key][2])[2])
    ELSE None

\* C16: the status endpoint returns the state the task has and, when the
\* stored info is a mapping, its stage, document_id and detail unchanged: a
\* task last reported as PROCESSING / embedding / doc-1 is returned as that.
C16_StatusReturnsStoredFields ==
    \A t \in Tasks :
        LET s == get_document_status(t)
            b == backend[t]
        IN  /\ s.task_id = t
            /\ s.state = b.state
            /\ b.info.kind = "dict" =>
                  /\ s.stage = StoredField(b.info.dict, "stage")
                  /\ s.document_id = StoredField(b.info.dict, "document_id")
                  /\ s.detail = StoredField(b.info.dict, "detail")
            /\ (b.state = "PROCESSING" /\ reported[t].stage = "embedding") =>
                  s = [task_id |-> t, state |-> "PROCESSING", stage |-> Some("embedding"),
                       document_id |-> Some(DocId), detail |-> None]

\* C16 witness: a task is polled while its second batch is being embedded.
C16_Witness ==
    \E t \in Tasks :
        /\ backend[t].state = "PROCESSING"
        /\ get_document_status(t).stage = Some("embedding")
        /\ reported[t].processed = Some(2)

\* The type of an uploaded file is none the endpoint supports.
UnsupportedType(file) ==
    /\ file.extension \notin TextExtensions \cup BinaryExtensions
    /\ file.content_type \notin {Some(c) : c \in TextContentTypes}

\* No text can be extracted from an uploaded file of a supported type.
Unextractable(file) == ~UnsupportedType(file) /\ file.body \in {"empty", "broken"}

\* A metadata field is valid when it is absent, empty or holds a JSON object.
ValidMetadataField(field) ==
    field \in {None, Some(<<>>)} \/ JsonLoads(field[1]) # None

\* An allowed_principals field is valid when it is absent, empty or holds a
\* JSON list of strings.
ValidPrincipalsField(field) ==
    \/ field \in {None, Some(<<>>)}
    \/ /\ Len(field[1]) >= 2
       /\ field[1][1] = <<"punct", "[">> /\ field[1][Len(field[1])] = <<"punct", "]">>
       /\ \A i \in 2..(Len(field[1]) - 1) : field[1][i][1] = "str"

\* No ingestion task was enqueued.
NothingEnqueued == \A t \in Tasks : pc[t] = "idle" /\ kwargs[t] = None

\* C17: an upload of an unsupported file type is rejected with status 415,
\* one whose content cannot be extracted or whose metadata or
\* allowed_principals field is not valid with status 400, and in each of
\* these cases no ingestion task is enqueued.
C17_BadUploadsAreRejected ==
    (response # None /\ response[1].endpoint = "upload") =>
        LET r == response[1]
        IN  /\ (UnsupportedType(r.file) /\ r.file.body = "ok") =>
                  (r.status_code = 415 /\ NothingEnqueued)
            /\ Unextractable(r.file) => (r.status_code = 400 /\ NothingEnqueued)
            /\ (~UnsupportedType(r.file) /\ ~Unextractable(r.file)
                 /\ (~ValidMetadataField(r.metadata)
                       \/ ~ValidPrincipalsField(r.allowed_principals))) =>
                  (r.status_code = 400 /\ NothingEnqueued)

\* C18: with permission filters enabled, a chat request that names no
\* principal is retrieved with exactly the default public principal, and no
\* search of the chat path runs without a predicate on allowed_principals.
C18_ChatDefaultsToPublicPrincipal ==
    (retrieval # None /\ retrieval[1].via = "chat" /\ env.permission_filters) =>
        /\ response[1].principals = <<>> =>
              /\ retrieval[1].principals = Some(<<default_public_principal>>)
              /\ retrieval[1].where_filter =
                    Some(ContainsAnyFilter("allowed_principals", <<default_public_principal>>))
        /\ retrieval[1].where_filter # None
        /\ retrieval[1].where_filter[1].operator = "ContainsAny"
        /\ retrieval[1].where_filter[1].valueTextArray # <<>>
        /\ \A i \in 1..Len(retrieval[1].chunks) :
              Range(retrieval[1].chunks[i].allowed_principals)
                  \cap Range(retrieval[1].where_filter[1].valueTextArray) # {}

\* C18 witness: with filters enabled a chat request without principals got
\* the public chunk of an index that also holds a chunk of user:42.
C18_Witness ==
    /\ retrieval # None /\ retrieval[1].via = "chat"
    /\ env.permission_filters
    /\ response[1].principals = <<>>
    /\ \E o \in index : o.allowed_principals = <<"user:42">>
    /\ Len(retrieval[1].chunks) >= 1
    /\ \A i \in 1..Len(retrieval[1].chunks) :
          retrieval[1].chunks[i].allowed_principals = <<"public">>

\* C19: every error retrieval catches and does not re-raise (the query
\* embedding failure, the metadata decode failure) has a log record written
\* where it was caught.
C19_CaughtErrorsAreLogged ==
    retrieval # None => retrieval[1].caught \subseteq retrieval[1].logged

\* C20: every run calls delete_existing_document_chunks exactly once and
\* before each of its upsert_chunks calls, also when the index holds no
\* object of the document: no run has upserted without having deleted, no
\* run deletes twice, and a run past its first statement has deleted once.
C20_DeleteOnceBeforeEveryUpsert ==
    \A t \in Tasks :
        /\ runlog[t].delete_calls <= 1
        /\ runlog[t].upsert_calls > 0 => runlog[t].delete_calls = 1
        /\ pc[t] = "delete" => (runlog[t].delete_calls = 0 /\ runlog[t].upsert_calls = 0)
        /\ pc[t] \notin {"idle", "queued", "delete"} => runlog[t].delete_calls = 1

\* C20 witness: the first delivery of the first task, whose document the
\* index never held, completed after one delete and two upserts.
C20_Witness ==
    \E t \in Tasks :
        /\ pc[t] = "done"
        /\ retries[t] = 0
        /\ runlog[t].after = {}
        /\ \A u \in Tasks \ {t} : pc[u] \in {"idle", "queued"} /\ retries[u] = 0
        /\ runlog[t].delete_calls = 1
        /\ runlog[t].delete_ok
        /\ runlog[t].upsert_calls = 2

\* The step in which embed_chunks or upsert_chunks raises out of the run of t.
RaisedInBatch(t) ==
    /\ pc[t] \in {"embed", "upsert"}
    /\ backend'[t].state \in {"RETRY", "FAILURE"}

\* C21: when embed_chunks or upsert_chunks raises, the run stops there (its
\* locals are gone and it makes no further call), and the next attempt starts
\* at the first statement: it has made no call yet, it deletes the document's
\* chunks before it chunks the full text again, and its loop starts with
\* processed = 0 at the first chunk.
C21_FailedRunStopsAndRetryStartsOver ==
    [][\A t \in Tasks :
          /\ RaisedInBatch(t) =>
                /\ pc'[t] \in {"queued", "failed"}
                /\ raw_chunks'[t] = <<>> /\ document_chunks'[t] = <<>>
                /\ processed'[t] = 0 /\ batch_start'[t] = 0
          /\ (pc[t] \in {"queued", "failed"} /\ pc'[t] = pc[t]) =>
                (runlog'[t] = runlog[t] /\ processed'[t] = 0)
          /\ (pc[t] = "queued" /\ pc'[t] # "queued") =>
                /\ pc'[t] = "delete"
                /\ runlog'[t].embed_calls = 0 /\ runlog'[t].upsert_calls = 0
                /\ runlog'[t].delete_calls = 0 /\ runlog'[t].passed = <<>>
          /\ (pc[t] = "chunk" /\ pc'[t] # "chunk") =>
                /\ pc'[t] = "loop"
                /\ runlog[t].delete_calls = 1
                /\ runlog[t].embed_calls = 0 /\ runlog[t].upsert_calls = 0
                /\ raw_chunks'[t] = chunk_text(Args(t).text, None, None)
                /\ processed'[t] = 0 /\ batch_start'[t] = 0
          /\ (pc[t] = "loop" /\ pc'[t] = "embed" /\ runlog[t].embed_calls = 0) =>
                /\ processed[t] = 0
                /\ document_chunks'[t][1].text = raw_chunks[t][1]
                /\ DictGet(document_chunks'[t][1].metadata, "chunk_index") = Some(JInt(0))]_vars

\* C21 witness: a delivery whose predecessor had reported 4 processed chunks
\* of 4 before its write raised is at the top of its loop with processed = 0
\* and all 4 chunks to do.
C21_Witness ==
    \E t \in Tasks :
        /\ retries[t] >= 1
        /\ pc[t] = "loop"
        /\ reported[t].processed = Some(4)
        /\ reported[t].processed_attempt = retries[t] - 1
        /\ processed[t] = 0 /\ batch_start[t] = 0
        /\ Len(raw_chunks[t]) = 4

\* Task t has completed on a retry, earlier attempts of it wrote chunks, and
\* no other task has started since.
CompletedAfterPartialWrite(t) ==
    /\ pc[t] = "done"
    /\ retries[t] >= 1
    /\ runlog[t].earlier # {}
    /\ \A u \in Tasks \ {t} : t \notin runlog[u].after

C23_DeleteErrorIsNotFatal ==
    [][\A t \in Tasks :
          /\ (pc[t] = "delete" /\ pc'[t] # "delete") =>
                /\ pc'[t] = "update_started"
                /\ retries'[t] = retries[t]
                /\ backend'[t] = backend[t]
                /\ runlog'[t].delete_calls = 1
                /\ ~runlog'[t].delete_ok => index' = index
          /\ (retries'[t] # retries[t] \/ (pc'[t] = "failed" /\ pc[t] # "failed")) =>
                pc[t] \in {"embed", "upsert"}
          /\ (pc[t] = "return" /\ pc'[t] = "done" /\ ~runlog[t].delete_ok /\ ~runlog[t].short) =>
                /\ TextsOf(runlog[t].passed) = chunk_text(Args(t).text, None, None)
                /\ runlog[t].written = IdsOf(runlog[t].passed)]_vars

\* C23 witness: the only fault of the behaviour was the delete error of a
\* run that completed on its first delivery with all 4 chunks written.
C23_Witness ==
    \E t \in Tasks :
        /\ pc[t] = "done"
        /\ retries[t] = 0
        /\ faults = 1
        /\ runlog[t].delete_calls = 1 /\ ~runlog[t].delete_ok
        /\ runlog[t].embed_calls = 2 /\ runlog[t].upsert_calls = 2
        /\ Cardinality(runlog[t].written) = 4
        /\ backend[t].state = "SUCCESS"

\* The run of t is inside the body of its batch loop.
InBatch(t) == pc[t] \in {"embed", "update_indexing", "upsert"}

\* C24: within one run the batches are handled one after another in chunk
\* order: an embed call starts only when every earlier batch has been
\* upserted, a batch has between 1 and batch_size (>= 1) chunks, which are
\* the next chunks after those already passed to upsert_chunks, and at most
\* one embedded batch is waiting for its write.
C24_BatchesAreSequential ==
    \A t \in Tasks :
        /\ BatchSize >= 1
        /\ runlog[t].embed_calls - runlog[t].upsert_calls \in {0, 1}
        /\ pc[t] \in {"loop", "embed"} => runlog[t].embed_calls = runlog[t].upsert_calls
        /\ pc[t] \in {"update_indexing", "upsert"} =>
              runlog[t].embed_calls = runlog[t].upsert_calls + 1
        /\ (pc[t] = "loop" \/ InBatch(t)) =>
              /\ Len(runlog[t].passed) = processed[t]
              /\ processed[t] = batch_start[t]
              /\ TextsOf(runlog[t].passed) = SubSeq(raw_chunks[t], 1, processed[t])
        /\ InBatch(t) =>
              /\ Len(document_chunks[t]) \in 1..BatchSize
              /\ TextsOf(document_chunks[t]) =
                    SubSeq(raw_chunks[t], processed[t] + 1,
                           processed[t] + Len(document_chunks[t]))
        /\ ~InBatch(t) => document_chunks[t] = <<>>

\* C24 witness: the second batch of a run is at its embed call after the
\* upsert of the first batch has returned.
C24_Witness ==
    \E t \in Tasks :
        /\ pc[t] = "embed"
        /\ runlog[t].embed_calls = 1 /\ runlog[t].upsert_calls = 1
        /\ processed[t] = 2
        /\ Len(document_chunks[t]) = 2
        /\ Len(raw_chunks[t]) = 4

\* C25: the where clause retrieve_documents sends is the extra filter AND
\* the principal predicate when a filter and a non-empty principals list are
\* given, the principal predicate alone when only principals are given, the
\* extra filter alone when no principals are given, and none when neither is
\* given; the filter of the caller is an operand of the And as it was given,
\* and the hits are those the clause admits.
C25_WhereClauseComposition ==
    retrieval # None =>
        LET r == retrieval[1]
            given == r.principals # None /\ r.principals # Some(<<>>)
        IN  /\ (r.filters # None /\ given) =>
                  /\ r.where_filter # None
                  /\ r.where_filter[1].operator = "And"
                  /\ r.where_filter[1].operands =
                        <<r.filters[1], ContainsAnyFilter("allowed_principals", r.principals[1])>>
            /\ (r.filters = None /\ given) =>
                  r.where_filter = Some(ContainsAnyFilter("allowed_principals", r.principals[1]))
            /\ (r.filters # None /\ ~given) => r.where_filter = r.filters
            /\ (r.filters = None /\ ~given) => r.where_filter = None
            /\ \A i \in 1..Len(r.hits) : r.hits[i].item \in Admitted(index, r.where_filter)
            /\ Len(r.hits) = Min(r.top_k, Cardinality(Admitted(index, r.where_filter)))

\* C25 witness: a request with a document filter and the principal user:42
\* against the three objects of upsert_chunks got the one chunk that passes both.
C25_Witness ==
    /\ retrieval # None
    /\ index = StoredObjects
    /\ retrieval[1].filters = Some(EqualFilter("document_id", DocId))
    /\ retrieval[1].principals = Some(<<"user:42">>)
    /\ retrieval[1].where_filter # None
    /\ retrieval[1].where_filter[1].operator = "And"
    /\ retrieval[1].top_k = 2
    /\ Len(retrieval[1].chunks) = 1
    /\ retrieval[1].chunks[1].allowed_principals = <<"user:42">>

\* C26: whatever metadata string a hit stores, retrieve_documents does not
\* fail for it and yields one chunk per hit whose metadata is the decoded
\* mapping, or {"raw": <the stored string>} when the string is not one.
C26_MetadataNeverFailsRetrieval ==
    retrieval # None =>
        LET r == retrieval[1]
        IN  /\ r.error # "validation"
            /\ Len(r.chunks) = Len(r.hits)
            /\ \A i \in 1..Len(r.hits) :
                  r.chunks[i].metadata =
                      IF JsonLoads(r.hits[i].item.metadata) # None
                      THEN JsonLoads(r.hits[i].item.metadata)[1]
                      ELSE <<<<"raw", <<"json", r.hits[i].item.metadata>>>>>>

\* max(1, ceil((n - overlap) / (size - overlap))) for size > overlap.
ExpectedChunkCount(n, size, overlap) ==
    IF n - overlap <= 0 THEN 1
    ELSE Max(1, (n - overlap + (size - overlap) - 1) \div (size - overlap))

\* C27: for a text of N >= 1 words, chunk_size s >= 1 and 0 <= overlap o < s,
\* chunk_text returns max(1, ceil((N - o) / (s - o))) chunks; chunk i holds
\* the words from position (i - 1)(s - o) on, s of them except for the last
\* chunk, which holds between 1 and s, and every chunk after the first ends
\* later than the one before it.
C27_ChunkCountAndWindows ==
    (InRangeCall /\ Split(chunked[1].text) # <<>>) =>
        LET words  == Split(chunked[1].text)
            s      == chunked[1].chunk_size[1]
            o      == chunked[1].overlap[1]
            chunks == chunked[1].chunks
            StartOf(i) == (i - 1) * (s - o)
            EndOf(i) == Min(StartOf(i) + s, Len(words))
        IN  /\ Len(chunks) = ExpectedChunkCount(Len(words), s, o)
            /\ \A i \in 1..Len(chunks) :
                  /\ Split(chunks[i]) = SubSeq(words, StartOf(i) + 1, EndOf(i))
                  /\ i < Len(chunks) => Len(Split(chunks[i])) = s
                  /\ Len(Split(chunks[i])) \in 1..s
                  /\ i > 1 => EndOf(i) > EndOf(i - 1)
            /\ EndOf(Len(chunks)) = Len(words)

\* C27 witness: the 8-word text cut with chunk_size 4 and overlap 1 into
\* ceil(7 / 3) = 3 chunks, the last of 2 words.
C27_Witness ==
    /\ InRangeCall
    /\ chunked[1].text = TextScenario
    /\ chunked[1].chunk_size = Some(4) /\ chunked[1].overlap = Some(1)
    /\ Len(chunked[1].chunks) = 3
    /\ Len(Split(chunked[1].chunks[3])) = 2

\* C28: at every point of a run the processed count its last progress update
\* carried is not greater than the number of chunks the run has written to
\* the index (runs whose embedder answered in full).
C28_ReportedNeverAheadOfWritten ==
    \A t \in Tasks :
        (/\ Running(t)
         /\ ~runlog[t].short
         /\ reported[t].processed # None
         /\ reported[t].processed_attempt = retries[t]
         /\ reported[t].stage \in {"embedding", "indexing", "finalizing"}) =>
            reported[t].processed[1] <= Cardinality(runlog[t].written)

\* C29: in a completed run the chunks passed to upsert_chunks carry the
\* chunk_index values 0, 1, ..., total - 1 in chunk order, across the batch
\* boundaries, and the run's document_id in their document_id field; the
\* objects the run stored decode to the same chunk_index.
C29_ChunkIndexIsThePosition ==
    \A t \in Tasks :
        pc[t] = "done" =>
            LET passed == runlog[t].passed
            IN  /\ Len(passed) = Len(chunk_text(Args(t).text, None, None))
                /\ \A i \in 1..Len(passed) :
                      /\ DictGet(passed[i].metadata, "chunk_index") = Some(JInt(i - 1))
                      /\ passed[i].document_id = Args(t).document_id
                      /\ \A o \in index :
                            o.uuid = passed[i].id =>
                               /\ o.document_id = Args(t).document_id
                               /\ JsonLoads(o.metadata) # None
                               /\ DictGet(JsonLoads(o.metadata)[1], "chunk_index")
                                     = Some(JInt(i - 1))

\* C29 witness: a run of 4 chunks in 2 batches has completed and the first
\* chunk of its second batch is stored with chunk_index 2.
C29_Witness ==
    \E t \in Tasks :
        /\ pc[t] = "done"
        /\ Len(runlog[t].passed) = 4
        /\ runlog[t].upsert_calls = 2
        /\ \E o \in index :
              /\ o.uuid = runlog[t].passed[3].id
              /\ DictGet(JsonLoads(o.metadata)[1], "chunk_index") = Some(JInt(2))

\* The ingest_document messages sent so far.
Enqueued == {t \in Tasks : pc[t] # "idle"}

\* The watcher's handler and the scan are both at rest.
InboxAtRest ==
    /\ inbox.watcher.pc \in {"idle", "ignored", "skipped", "raised", "done"}
    /\ inbox.sync.pc \in {"idle", "done", "failed"}

\* C30: a .txt file placed in the inbox is enqueued for ingestion exactly
\* once and moved to the processed directory, also when on_created and
\* sync_ingestion_inbox handle the inbox at the same time: no second message
\* is ever sent, and once a message was sent and both are at rest the file
\* is in the processed directory.
C30_InboxFileEnqueuedOnce ==
    /\ Cardinality(Enqueued) <= 1
    /\ (Enqueued # {} /\ InboxAtRest) => inbox.place = "processed"

============================================================================
